---------------------------- MODULE Spec2Model ----------------------------
(***************************************************************************)
(* Breakfast booking: the signed-link protocol, the offer catalog, the     *)
(* event flags and the reservation engine of app/main.py, app/db.py and    *)
(* app/routers/public.py, as a state machine over the SQLite tables.       *)
(*                                                                         *)
(* Text is a sequence of one-character strings, so that formatting,        *)
(* parsing, stripping and case folding are computed, not assumed.  The     *)
(* characters "Eacute" / "eacute" stand for the non-ASCII letters          *)
(* U+00C9 / U+00E9, "TAB" for a white-space character that is not the      *)
(* space, "NBSP" for U+00A0.                                               *)
(***************************************************************************)
EXTENDS Integers, Sequences, FiniteSets, TLC

VARIABLES
    events,             \* table events: set of rows
    agents,             \* table agents: set of rows
    shifts,             \* table shifts: set of rows (shift_date, agent_id)
    offers,             \* table offers: sequence of rows, in id order
    reservations,       \* table reservations: sequence of rows, in id order
    reservation_lines,  \* table reservation_lines: sequence of rows
    flash,              \* request.session["flash"]
    last,               \* history: the last request that is observed, and its answer
    probe,              \* the (agent_id, date, token) a link check is run on
    inflight,           \* per client: the POST /reserve that has read, not yet written
    txn,                \* the write transaction that is open or was committed last
    weekly_menus,       \* table weekly_menus: set of rows (week_start, menu)
    admin               \* request.session["admin"] is True

vars == <<events, agents, shifts, offers, reservations, reservation_lines,
          flash, last, probe, inflight, txn, weekly_menus, admin>>

\* Python's None, where a record is expected
None == [none |-> TRUE]

-----------------------------------------------------------------------------
(* Bounds of the model *)

MaxReservations == 1    \* rows the reservations table may hold
MaxCap == 2             \* largest max_per_person an admin form submits

-----------------------------------------------------------------------------
(* Text *)

Digits == <<"0", "1", "2", "3", "4", "5", "6", "7", "8", "9">>

IsDigit(c) == \E i \in 1..10 : Digits[i] = c

DigitVal(c) == (CHOOSE i \in 1..10 : Digits[i] = c) - 1

\* str.isspace(): Python's white space is more than the space character
PyWhite == {" ", "TAB", "NBSP"}

RECURSIVE LStrip(_, _)
LStrip(s, ws) ==
    IF s # <<>> /\ Head(s) \in ws THEN LStrip(Tail(s), ws) ELSE s

RECURSIVE RStrip(_, _)
RStrip(s, ws) ==
    IF s # <<>> /\ s[Len(s)] \in ws THEN RStrip(SubSeq(s, 1, Len(s) - 1), ws)
    ELSE s

\* str.strip()
py_strip(s) == RStrip(LStrip(s, PyWhite), PyWhite)

\* SQLite trim(X): removes spaces only
sql_trim(s) == RStrip(LStrip(s, {" "}), {" "})

\* str.lower(): Unicode aware
PyLowerChar(c) ==
    CASE c = "S" -> "s"
      [] c = "T" -> "t"
      [] c = "Eacute" -> "eacute"
      [] OTHER -> c

\* SQLite lower(X): ASCII letters only (no ICU extension is loaded)
SqlLowerChar(c) ==
    CASE c = "S" -> "s"
      [] c = "T" -> "t"
      [] OTHER -> c

py_lower(s) == [i \in 1..Len(s) |-> PyLowerChar(s[i])]

sql_lower(s) == [i \in 1..Len(s) |-> SqlLowerChar(s[i])]

\* int(x) of Python on a str: surrounding white space and one sign are
\* accepted, then decimal digits; anything else raises.  The result is
\* <<n>>, or NoInt when int() raises.
NoInt == <<>>

RECURSIVE DigitsVal(_, _)
DigitsVal(s, acc) ==
    IF s = <<>> THEN acc ELSE DigitsVal(Tail(s), 10 * acc + DigitVal(Head(s)))

py_int(text) ==
    LET s == py_strip(text)
        neg == s # <<>> /\ Head(s) = "-"
        body == IF s # <<>> /\ Head(s) \in {"-", "+"} THEN Tail(s) ELSE s
    IN  IF body = <<>> \/ \E i \in 1..Len(body) : ~IsDigit(body[i])
        THEN NoInt
        ELSE IF neg THEN <<0 - DigitsVal(body, 0)>> ELSE <<DigitsVal(body, 0)>>

\* str(n) of an int
RECURSIVE py_str(_)
py_str(n) ==
    IF n < 0 THEN <<"-">> \o py_str(0 - n)
    ELSE IF n < 10 THEN <<Digits[n + 1]>>
    ELSE py_str(n \div 10) \o <<Digits[(n % 10) + 1]>>


-----------------------------------------------------------------------------
(* Link signer / verifier (main.py) *)

LINK_SECRET == <<"k">>

\* The characters a signed message is made of: the key, str(agent_id),
\* the separator and the date text.
MsgAlphabet == <<"0", "1", "2", "3", "4", "5", "6", "7", "8", "9", "|", "d", "k", "-">>

MsgBase == Len(MsgAlphabet) + 1

CharCode(c) == CHOOSE i \in 1..Len(MsgAlphabet) : MsgAlphabet[i] = c

HexChars == <<"0", "1", "2", "3", "4", "5", "6", "7", "8", "9",
              "a", "b", "c", "d", "e", "f">>

DigestLen == 8

\* HMAC-SHA256 is taken as an ideal MAC: a function of (key, message) that
\* is injective on the messages of the model.  MacValue numbers key \o msg
\* positionally; hexdigest renders the number as DigestLen lower-case hex
\* characters.
RECURSIVE MacValue(_, _)
MacValue(s, acc) ==
    IF s = <<>> THEN acc
    ELSE MacValue(Tail(s), MsgBase * acc + CharCode(Head(s)))

RECURSIVE hexdigest(_, _)
hexdigest(v, n) ==
    IF n = 0 THEN <<>>
    ELSE hexdigest(v \div 16, n - 1) \o <<HexChars[(v % 16) + 1]>>

\* msg = f"{agent_id}|{event_date}"
LinkMsg(agent_id, event_date) == py_str(agent_id) \o <<"|">> \o event_date

sign_agent_link(agent_id, event_date) ==
    hexdigest(MacValue(LINK_SECRET \o LinkMsg(agent_id, event_date), 0), DigestLen)

IsAscii(c) == c \notin {"Eacute", "eacute", "NBSP"}

TypeError == "TypeError"

\* hmac.compare_digest on two str: raises TypeError when either holds a
\* non-ASCII character, otherwise equality.  "True", "False" or TypeError.
compare_digest(a, b) ==
    IF \E i \in 1..Len(a) : ~IsAscii(a[i]) THEN TypeError
    ELSE IF \E i \in 1..Len(b) : ~IsAscii(b[i]) THEN TypeError
    ELSE IF a = b THEN "True" ELSE "False"

verify_agent_link_any_token(agent_id, event_date, token) ==
    IF token = <<>> THEN "False" ELSE "True"

verify_agent_link(agent_id, event_date, token) ==
    IF token = <<>> THEN "False"
    ELSE compare_digest(sign_agent_link(agent_id, event_date), token)


-----------------------------------------------------------------------------
(* The calendar, the catalog keys and the registry of the model *)

\* tomorrow_str(): the behaviours of the model cover one day of operation,
\* so every handler computes the same event date.
Tomorrow == <<"d", "1">>

OtherDay == <<"d", "2">>

Dates == {Tomorrow, OtherDay}

\* a menu is a list of texts; each item of the default menu is written as a
\* text of one word
DEFAULT_MENU == << <<"Oeufs">>, <<"Pain">>, <<"Charcuterie">>, <<"Pancakes">> >>

DAYS == <<"lundi", "mardi", "mercredi", "jeudi", "vendredi", "samedi", "dimanche">>

DayKeys == {DAYS[i] : i \in 1..Len(DAYS)}

\* date.weekday(): tomorrow is a Tuesday, the other day the Wednesday after it
weekday(d) == IF d = Tomorrow THEN 1 ELSE 2

\* monday_of_week(d).isoformat(): both dates lie in the week of "d0"
monday_of_week(d) == <<"d", "0">>

\* SELECT week_start, menu_json FROM weekly_menus WHERE week_start = ?
get_weekly_menu(week_start) ==
    IF \E w \in weekly_menus : w.week_start = week_start
    THEN CHOOSE w \in weekly_menus : w.week_start = week_start
    ELSE None

menu_for_date_default_only(d) == DEFAULT_MENU

\* menu_for_date(d): the list of the week's menu for the day, or the default
\* menu when the week has no row, the day no key or the list no item
menu_for_date(d) ==
    LET data == get_weekly_menu(monday_of_week(d))
        day_key == DAYS[weekday(d) + 1]
        items == IF day_key \in DOMAIN data.menu THEN data.menu[day_key] ELSE <<>>
    IN  IF data = None THEN DEFAULT_MENU
        ELSE IF items # <<>> THEN items ELSE DEFAULT_MENU

AgentIds == {1, 2}          \* ids of the rows of table agents
Recipes == {1}              \* recipe ids an admin offers as MAIN
Foods == {1}                \* food ids an admin offers as SIDE

\* the clients that may have a POST /reserve under way at the same time
Clients == {1, 2}

NoRequest == [c \in Clients |-> None]

-----------------------------------------------------------------------------
(* db.py: queries *)

get_event(event_date) ==
    IF \E e \in events : e.event_date = event_date
    THEN CHOOSE e \in events : e.event_date = event_date
    ELSE None

\* INSERT INTO events ... VALUES (?, ?, 1, 1): AUTOINCREMENT id, open, planned
EventRow(event_date, menu) ==
    [id |-> Cardinality(events) + 1, event_date |-> event_date, menu |-> menu,
     is_open |-> TRUE, is_planned |-> TRUE]

\* INSERT OR REPLACE: the row of the date is written again
ensure_event_for_date_replaces(event_date, default_menu) ==
    {e \in events : e.event_date # event_date}
    \cup {[id |-> IF \E e \in events : e.event_date = event_date
                  THEN (CHOOSE e \in events : e.event_date = event_date).id
                  ELSE Cardinality(events) + 1,
           event_date |-> event_date, menu |-> default_menu,
           is_open |-> TRUE, is_planned |-> TRUE]}

\* the events table after ensure_event_for_date
ensure_event_for_date(event_date, default_menu) ==
    IF \E e \in events : e.event_date = event_date
    THEN events
    ELSE events \cup {EventRow(event_date, default_menu)}

list_working_agent_ids_everyone(shift_date) == {a.id : a \in agents}

list_working_agent_ids(shift_date) ==
    {s.agent_id : s \in {x \in shifts : x.shift_date = shift_date}}

\* next((a for a in list_agents(active_only=False) if a["id"] == aid), None)
AgentById(aid) ==
    IF \E a \in agents : a.id = aid
    THEN CHOOSE a \in agents : a.id = aid
    ELSE None

Range(f) == {f[i] : i \in DOMAIN f}

reservation_exists_for_event_never(event_id, name) == FALSE

\* name_norm = name.strip().lower() in Python;
\* WHERE event_id = ? AND lower(trim(name)) = ? in SQLite
reservation_exists_for_event(event_id, name) ==
    LET name_norm == py_lower(py_strip(name))
    IN  \E r \in Range(reservations) :
            /\ r.event_id = event_id
            /\ sql_lower(sql_trim(r.name)) = name_norm

list_offers_for_date(offer_date) ==
    {o \in Range(offers) : o.offer_date = offer_date}

\* offers_by_id.get(offer_id)
OfferById(offers_list, offer_id) ==
    IF \E o \in offers_list : o.id = offer_id
    THEN CHOOSE o \in offers_list : o.id = offer_id
    ELSE None

-----------------------------------------------------------------------------
(* POST /reserve: validation (routers/public.py; the same handler of       *)
(* main.py differs in the message of the planned / open check only).       *)
(*                                                                         *)
(* A form is [agent, d, k, bring, main_choice, main_qty, sides, name]:     *)
(* texts, <<>> for a field that is absent or empty; main_qty is the field  *)
(* main_qty_<id> of the chosen main; sides lists the fields offer_<key>    *)
(* as [key, val]; name is a field the page does not have and the handler   *)
(* does not read.  A flash message is named by its reason.                 *)

Rejected(reason, level, redirect) ==
    [reason |-> reason, level |-> level, redirect |-> redirect,
     persist |-> FALSE, name |-> <<>>, bring |-> <<>>, lines |-> <<>>]

\* max_pp = int(o.get("max_per_person") or 1)
MaxPerPerson(o) == IF o.max_per_person = 0 THEN 1 ELSE o.max_per_person

\* "if not o or o.get("offer_type") != "MAIN" or not o.get("is_active")", negated
MainOfferValid_inactive_too(o) == o # None /\ o.offer_type = "MAIN"

MainOfferValid(o) == o # None /\ o.offer_type = "MAIN" /\ o.is_active

\* "if not o or o.get("offer_type") != "SIDE" or not o.get("is_active")", negated
SideOfferValid_any_type(o) == o # None /\ o.is_active

SideOfferValid_inactive_too(o) == o # None /\ o.offer_type = "SIDE"

SideOfferValid(o) == o # None /\ o.offer_type = "SIDE" /\ o.is_active

MainQty_unclamped(text, max_pp) ==
    LET parsed == IF text = <<>> THEN <<1>> ELSE py_int(text)
        q == IF parsed = NoInt THEN 1 ELSE parsed[1]
    IN  IF q < 1 THEN 1 ELSE q

\* main_qty = int(form.get(qty_key) or 1), 1 when int() raises;
\* then clamped to [1, max_pp]
MainQty(text, max_pp) ==
    LET parsed == IF text = <<>> THEN <<1>> ELSE py_int(text)
        q == IF parsed = NoInt THEN 1 ELSE parsed[1]
        low == IF q < 1 THEN 1 ELSE q
    IN  IF low > max_pp THEN max_pp ELSE low

\* one pass of "for key, val in form.items()" over a field offer_<key>:
\* the line it appends, or <<>> when the field is skipped
SideLine(field, offers_list) ==
    LET key_int == py_int(field.key)
        val_int == py_int(field.val)
        offer_id == key_int[1]
        qty == val_int[1]
        o == OfferById(offers_list, offer_id)
    IN  IF key_int = NoInt \/ val_int = NoInt THEN <<>>
        ELSE IF qty <= 0 THEN <<>>
        ELSE IF ~SideOfferValid(o) THEN <<>>
        ELSE <<[offer_id |-> offer_id,
                qty |-> IF qty > MaxPerPerson(o) THEN MaxPerPerson(o) ELSE qty]>>

RECURSIVE SideLines(_, _)
SideLines(fields, offers_list) ==
    IF fields = <<>> THEN <<>>
    ELSE SideLine(Head(fields), offers_list) \o SideLines(Tail(fields), offers_list)

\* form.items() of a FormData (an ImmutableMultiDict): one pair per distinct
\* key, at the place of the key's first occurrence, with the value of its
\* last occurrence; two keys that differ as texts are two pairs
RECURSIVE form_items_from(_, _)
form_items_from(fields, i) ==
    IF i > Len(fields) THEN <<>>
    ELSE LET key == fields[i].key
             last_j == CHOOSE j \in i..Len(fields) :
                          /\ fields[j].key = key
                          /\ \A m \in (j + 1)..Len(fields) : fields[m].key # key
         IN  (IF \E j \in 1..(i - 1) : fields[j].key = key THEN <<>>
              ELSE <<[key |-> key, val |-> fields[last_j].val]>>)
             \o form_items_from(fields, i + 1)

form_items(fields) == form_items_from(fields, 1)

\* main_count: the lines with qty > 0 whose offer is of type MAIN
MainCount(lines, offers_list) ==
    Cardinality({i \in 1..Len(lines) :
        /\ lines[i].qty > 0
        /\ OfferById(offers_list, lines[i].offer_id) # None
        /\ OfferById(offers_list, lines[i].offer_id).offer_type = "MAIN"})

\* RedirectResponse("/") and RedirectResponse(f"/?agent={aid}&d={event_date}&k={k_q}")
Root == [path |-> "/"]

LinkRedirect(aid, k_q) == [path |-> "/", agent |-> aid, d |-> Tomorrow, k |-> k_q]

ValidateOffers_no_empty_check(form, aid, k_q, name, bring) ==
    LET offers_list == list_offers_for_date(Tomorrow)
        back == LinkRedirect(aid, k_q)
        main_int == py_int(form.main_choice)
        main_offer_id == main_int[1]
        o == OfferById(offers_list, main_offer_id)
        main_lines ==
            IF form.main_choice = <<>> THEN <<>>
            ELSE <<[offer_id |-> main_offer_id,
                    qty |-> MainQty(form.main_qty, MaxPerPerson(o))]>>
        lines == main_lines \o SideLines(form_items(form.sides), offers_list)
    IN  IF offers_list = {} THEN Rejected("no_offers", "error", back)
        ELSE IF form.main_choice # <<>> /\ main_int = NoInt
        THEN Rejected("invalid_choice", "error", back)
        ELSE IF form.main_choice # <<>> /\ ~MainOfferValid(o)
        THEN Rejected("invalid_main", "error", back)
        ELSE IF MainCount(lines, offers_list) > 1
        THEN Rejected("single_main", "error", back)
        ELSE [reason |-> "success", level |-> "success", redirect |-> back,
              persist |-> TRUE, name |-> name, bring |-> bring, lines |-> lines]

\* the offer part of the handler, from "offers_list = list_offers_for_date"
ValidateOffers(form, aid, k_q, name, bring) ==
    LET offers_list == list_offers_for_date(Tomorrow)
        back == LinkRedirect(aid, k_q)
        main_int == py_int(form.main_choice)
        main_offer_id == main_int[1]
        o == OfferById(offers_list, main_offer_id)
        main_lines ==
            IF form.main_choice = <<>> THEN <<>>
            ELSE <<[offer_id |-> main_offer_id,
                    qty |-> MainQty(form.main_qty, MaxPerPerson(o))]>>
        lines == main_lines \o SideLines(form_items(form.sides), offers_list)
    IN  IF offers_list = {} THEN Rejected("no_offers", "error", back)
        ELSE IF form.main_choice # <<>> /\ main_int = NoInt
        THEN Rejected("invalid_choice", "error", back)
        ELSE IF form.main_choice # <<>> /\ ~MainOfferValid(o)
        THEN Rejected("invalid_main", "error", back)
        ELSE IF MainCount(lines, offers_list) > 1
        THEN Rejected("single_main", "error", back)
        ELSE IF lines = <<>> /\ bring = <<>>
        THEN Rejected("nothing_chosen", "warning", back)
        ELSE [reason |-> "success", level |-> "success", redirect |-> back,
              persist |-> TRUE, name |-> name, bring |-> bring, lines |-> lines]

\* the link part of the handler, once the event is planned and open
ValidateLink(form, event) ==
    LET bring == py_strip(form.bring)
        agent_q == py_strip(form.agent)
        d_q == py_strip(form.d)
        k_q == py_strip(form.k)
        aid_int == py_int(agent_q)
        aid == aid_int[1]
        checked == verify_agent_link(aid, d_q, k_q)
        agent == AgentById(aid)
    IN  IF agent_q = <<>> \/ d_q = <<>> \/ k_q = <<>>
        THEN Rejected("secure", "error", Root)
        ELSE IF aid_int = NoInt THEN Rejected("invalid_link", "error", Root)
        ELSE IF d_q # Tomorrow THEN Rejected("expired_or_invalid", "error", Root)
        ELSE IF checked = TypeError THEN Rejected(TypeError, "none", Root)
        ELSE IF checked = "False" THEN Rejected("expired_or_invalid", "error", Root)
        ELSE IF aid \notin list_working_agent_ids(Tomorrow)
        THEN Rejected("unauthorized", "error", Root)
        ELSE IF agent = None THEN Rejected("agent_not_found", "error", Root)
        ELSE IF reservation_exists_for_event(event.id, agent.name)
        THEN Rejected("already", "warning", LinkRedirect(aid, k_q))
        ELSE ValidateOffers(form, aid, k_q, agent.name, bring)

ValidatePublic_closed_first(form, event) ==
    IF event = None THEN Rejected("event_missing", "error", Root)
    ELSE IF ~event.is_open THEN Rejected("closed", "error", Root)
    ELSE IF ~event.is_planned THEN Rejected("not_planned", "error", Root)
    ELSE ValidateLink(form, event)

\* the handler of routers/public.py up to "Persist"; event is get_event's result
ValidatePublic(form, event) ==
    IF event = None THEN Rejected("event_missing", "error", Root)
    ELSE IF ~event.is_planned THEN Rejected("not_planned", "error", Root)
    ELSE IF ~event.is_open THEN Rejected("closed", "error", Root)
    ELSE ValidateLink(form, event)

\* the handler of main.py up to "Persist": one message for the three cases
ValidateMain(form, event) ==
    IF event = None \/ ~event.is_planned \/ ~event.is_open
    THEN Rejected("closed_or_not_planned", "error", Root)
    ELSE ValidateLink(form, event)

Validate(h, form, event) ==
    IF h = "public" THEN ValidatePublic(form, event) ELSE ValidateMain(form, event)

-----------------------------------------------------------------------------
(* db.py: writes of the reservation engine *)

\* the reservations table after create_reservation; the new id is Len + 1.
\* "by" is history: the link fields of the submission that made the row.
create_reservation(event_id, name, bring, by) ==
    Append(reservations,
           [id |-> Len(reservations) + 1, event_id |-> event_id,
            name |-> py_strip(name), bring |-> py_strip(bring), by |-> by])

SelectSeq2(seq, rid) == SelectSeq(seq, LAMBDA l : l.reservation_id # rid)

\* DELETE FROM reservation_lines, the WHERE clause left out
set_reservation_lines_delete_all(reservation_id, lines) ==
    [i \in 1..Len(lines) |->
        [reservation_id |-> reservation_id,
         offer_id |-> lines[i].offer_id, qty |-> lines[i].qty]]

set_reservation_lines_first_only(reservation_id, lines) ==
    SelectSeq2(reservation_lines, reservation_id)
    \o [i \in 1..(IF lines = <<>> THEN 0 ELSE 1) |->
            [reservation_id |-> reservation_id,
             offer_id |-> lines[i].offer_id, qty |-> lines[i].qty]]

\* DELETE FROM reservation_lines WHERE reservation_id = ?; then executemany INSERT
set_reservation_lines(reservation_id, lines) ==
    SelectSeq2(reservation_lines, reservation_id)
    \o [i \in 1..Len(lines) |->
            [reservation_id |-> reservation_id,
             offer_id |-> lines[i].offer_id, qty |-> lines[i].qty]]

-----------------------------------------------------------------------------
(* POST /reserve, the whole handler *)

\* the rows of events after ensure_event_for_date, and what get_event returns
EnsuredEvents == ensure_event_for_date(Tomorrow, menu_for_date(Tomorrow))

EnsuredEvent == CHOOSE e \in EnsuredEvents : e.event_date = Tomorrow

\* the row is written whatever the outcome of the checks
Persist_rejected_too(form, event_id, out) ==
    /\ reservations' =
          create_reservation(event_id, out.name, out.bring,
              [agent |-> py_strip(form.agent), d |-> py_strip(form.d),
               k |-> py_strip(form.k)])
    /\ reservation_lines' =
          IF out.persist /\ out.lines # <<>>
          THEN set_reservation_lines(Len(reservations) + 1, out.lines)
          ELSE reservation_lines
    /\ flash' = IF out.reason = TypeError THEN flash
                ELSE [message |-> out.reason, level |-> out.level]

Persist_name_from_form(form, event_id, out) ==
    /\ reservations' =
          IF out.persist
          THEN create_reservation(event_id,
                   IF form.name # <<>> THEN form.name ELSE out.name, out.bring,
                   [agent |-> py_strip(form.agent), d |-> py_strip(form.d),
                    k |-> py_strip(form.k)])
          ELSE reservations
    /\ reservation_lines' =
          IF out.persist /\ out.lines # <<>>
          THEN set_reservation_lines(Len(reservations) + 1, out.lines)
          ELSE reservation_lines
    /\ flash' = IF out.reason = TypeError THEN flash
                ELSE [message |-> out.reason, level |-> out.level]

\* "Persist", or the flash of the rejection: the handler's effect on the
\* tables and on the session, given the outcome of its checks
Persist(form, event_id, out) ==
    /\ reservations' =
          IF out.persist
          THEN create_reservation(event_id, out.name, out.bring,
                   [agent |-> py_strip(form.agent), d |-> py_strip(form.d),
                    k |-> py_strip(form.k)])
          ELSE reservations
    /\ reservation_lines' =
          IF out.persist /\ out.lines # <<>>
          THEN set_reservation_lines(Len(reservations) + 1, out.lines)
          ELSE reservation_lines
    /\ flash' = IF out.reason = TypeError THEN flash
                ELSE [message |-> out.reason, level |-> out.level]

\* history of one request: the form, what the handler read and what it answered
Observed(h, form, event, out) ==
    [h |-> h, form |-> form,
     is_planned |-> event.is_planned, is_open |-> event.is_open,
     rows |-> Len(reservations), nlines |-> Len(reservation_lines),
     reason |-> out.reason, level |-> out.level, redirect |-> out.redirect]

\* the whole handler; keep says whether the request's history is kept
reserve(h, form, keep) ==
    \E event \in {EnsuredEvent} :
        \E out \in {Validate(h, form, event)} :
            /\ events' = EnsuredEvents
            /\ Persist(form, event.id, out)
            /\ last' = IF keep THEN Observed(h, form, event, out) ELSE last
            /\ UNCHANGED <<agents, shifts, offers, probe, inflight, txn, weekly_menus, admin>>

\* POST /reserve
post_reserve(h, form) == reserve(h, form, FALSE)

\* POST /reserve, the request whose history is kept
observed_post_reserve(h, form) == reserve(h, form, TRUE)

-----------------------------------------------------------------------------
(* GET /, the whole handler (main.py, routers/public.py) *)

\* list_active_offers_for_date: the active MAIN and SIDE offers of the date
list_active_offers_for_date(offer_date) ==
    [mains |-> {o \in list_offers_for_date(offer_date) :
                   o.is_active /\ o.offer_type = "MAIN"},
     sides |-> {o \in list_offers_for_date(offer_date) :
                   o.is_active /\ o.offer_type = "SIDE"}]

pop_flash_left_in_place(slot) == [flash_data |-> slot, session |-> slot]

\* request.session.pop("flash", None): what is shown, and the key after it
pop_flash(slot) == [flash_data |-> slot, session |-> None]

\* the try block of home: the query parameters are read as they come; any
\* exception, the TypeError of the digest comparison too, leaves no agent
LockedAgent(link) ==
    LET aid_int == py_int(link.agent)
        checked == verify_agent_link(aid_int[1], link.d, link.k)
    IN  IF link.agent = <<>> \/ link.d = <<>> \/ link.k = <<>> THEN None
        ELSE IF aid_int = NoInt THEN None
        ELSE IF link.d # Tomorrow THEN None
        ELSE IF checked # "True" THEN None
        ELSE AgentById(aid_int[1])

\* reserve_reason of home, "None" when the form is shown
reserve_reason(link, event) ==
    LET agent == LockedAgent(link)
        from_link == agent # None
        shown == list_active_offers_for_date(Tomorrow)
        no_offers == shown.mains = {} /\ shown.sides = {}
        already_reserved ==
            IF from_link /\ agent.name # <<>>
            THEN reservation_exists_for_event(event.id, agent.name)
            ELSE FALSE
    IN  IF ~event.is_planned THEN "not_planned"
        ELSE IF ~event.is_open THEN "closed"
        ELSE IF ~from_link THEN "secure"
        ELSE IF already_reserved THEN "already"
        ELSE IF no_offers THEN "no_offers"
        ELSE "None"

\* the form POST /reserve gets from the page of this link, nothing chosen
LinkForm(link) ==
    [agent |-> link.agent, d |-> link.d, k |-> link.k, bring |-> <<>>,
     main_choice |-> <<>>, main_qty |-> <<>>, sides |-> <<>>, name |-> <<>>]

\* history of one page view: what the page shows, and what POST /reserve
\* answers to the same link in the state the page was rendered from
Rendered(link, event, flash_data) ==
    [route |-> "/", link |-> link, flash |-> flash_data,
     reserve_reason |-> reserve_reason(link, event),
     can_reserve |-> reserve_reason(link, event) = "None",
     post_reason |-> ValidatePublic(LinkForm(link), event).reason]

\* GET /?agent=..&d=..&k=..
home(link) ==
    \E event \in {EnsuredEvent} :
        \E popped \in {pop_flash(flash)} :
            /\ events' = EnsuredEvents
            /\ flash' = popped.session
            /\ last' = Rendered(link, event, popped.flash_data)
            /\ UNCHANGED <<agents, shifts, offers, reservations,
                           reservation_lines, probe, inflight, txn,
                           weekly_menus, admin>>

-----------------------------------------------------------------------------
(* auth.py: the admin session.  The requests of the model come with one    *)
(* session cookie, so flash and admin are the two keys of one session.     *)

\* ADMIN_USERNAME / ADMIN_PASSWORD of the environment
ADMIN_USERNAME == <<"a">>

ADMIN_PASSWORD == <<"p">>

\* hmac.compare_digest on the UTF-8 bytes: equal or not, never a TypeError
verify_password(plain, expected_plain) == plain = expected_plain

admin_credentials_ok(username, password) ==
    username = ADMIN_USERNAME /\ verify_password(password, ADMIN_PASSWORD)

is_admin_logged_in == admin = TRUE

\* RedirectResponse(path, status_code=303)
RedirectResponse(path) == [status |-> 303, path |-> path]

require_admin_nobody_refused == None

\* the redirect to the login page, or None for a logged-in session
require_admin ==
    IF ~is_admin_logged_in THEN RedirectResponse("/admin/login") ELSE None

\* "guard = require_admin(request); if guard: return guard"
Refused ==
    /\ last' = require_admin
    /\ UNCHANGED <<events, agents, shifts, offers, reservations,
                   reservation_lines, flash, probe, inflight, txn,
                   weekly_menus, admin>>

\* POST /admin/login: the username is stripped, the password is not
admin_login_post(username, password) ==
    /\ admin' = IF admin_credentials_ok(py_strip(username), password)
                THEN TRUE ELSE admin
    /\ last' = IF admin_credentials_ok(py_strip(username), password)
               THEN [route |-> "/admin/login", username |-> username,
                     password |-> password, status |-> 303, path |-> "/admin"]
               ELSE [route |-> "/admin/login", username |-> username,
                     password |-> password, status |-> 401, path |-> ""]
    /\ UNCHANGED <<events, agents, shifts, offers, reservations,
                   reservation_lines, flash, probe, inflight, txn,
                   weekly_menus>>

\* POST /admin/logout: request.session.clear() drops both keys
admin_logout ==
    /\ admin' = FALSE
    /\ flash' = None
    /\ last' = [route |-> "/admin/logout", status |-> 303, path |-> "/"]
    /\ UNCHANGED <<events, agents, shifts, offers, reservations,
                   reservation_lines, probe, inflight, txn, weekly_menus>>

-----------------------------------------------------------------------------
(* Admin handlers (main.py, routers/admin.py) *)

\* GET /admin: the dashboard shows the flash and removes it
admin_dashboard ==
    IF require_admin # None THEN Refused
    ELSE
        \E popped \in {pop_flash(flash)} :
            /\ flash' = popped.session
            /\ last' = [route |-> "/admin", flash |-> popped.flash_data]
            /\ UNCHANGED <<events, agents, shifts, offers, reservations,
                           reservation_lines, probe, inflight, txn,
                           weekly_menus, admin>>

toggle_event_open_and_planned(table, event_id) ==
    {IF e.id = event_id
     THEN [e EXCEPT !.is_open = ~e.is_open, !.is_planned = ~e.is_planned]
     ELSE e : e \in table}

\* toggle_event_open / toggle_event_planned on the row with this id
toggle_event_open(table, event_id) ==
    {IF e.id = event_id THEN [e EXCEPT !.is_open = ~e.is_open] ELSE e : e \in table}

toggle_event_planned(table, event_id) ==
    {IF e.id = event_id THEN [e EXCEPT !.is_planned = ~e.is_planned] ELSE e : e \in table}

EventIdOf(table, event_date) == (CHOOSE e \in table : e.event_date = event_date).id

\* POST /admin/toggle
admin_toggle ==
    IF require_admin # None THEN Refused
    ELSE
        LET table == ensure_event_for_date(Tomorrow, menu_for_date(Tomorrow))
        IN  /\ events' = toggle_event_open(table, EventIdOf(table, Tomorrow))
            /\ UNCHANGED <<agents, shifts, offers, reservations, reservation_lines,
                           flash, last, probe, inflight, txn, weekly_menus, admin>>

\* POST /admin/toggle-planned
admin_toggle_planned ==
    IF require_admin # None THEN Refused
    ELSE
        LET table == ensure_event_for_date(Tomorrow, menu_for_date(Tomorrow))
        IN  /\ events' = toggle_event_planned(table, EventIdOf(table, Tomorrow))
            /\ UNCHANGED <<agents, shifts, offers, reservations, reservation_lines,
                           flash, last, probe, inflight, txn, weekly_menus, admin>>

\* UPDATE events SET is_planned = ? WHERE id = ?
set_event_planned(table, event_id, is_planned) ==
    {IF e.id = event_id THEN [e EXCEPT !.is_planned = is_planned] ELSE e : e \in table}

upsert_event_menu_reset_flags(event_date, menu) ==
    {e \in events : e.event_date # event_date}
        \cup {[EventRow(event_date, menu) EXCEPT
                 !.id = IF get_event(event_date) = None THEN @
                        ELSE get_event(event_date).id]}

\* upsert_event_menu_preserve_open: UPDATE events SET menu_json = ? WHERE
\* event_date = ? when the SELECT finds the row, the INSERT of a new row with
\* (1, 1) when it does not
upsert_event_menu_preserve_open(event_date, menu) ==
    IF \E e \in events : e.event_date = event_date
    THEN {IF e.event_date = event_date THEN [e EXCEPT !.menu = menu] ELSE e :
             e \in events}
    ELSE events \cup {EventRow(event_date, menu)}

\* POST /admin/sync-tomorrow
admin_sync_tomorrow ==
    IF require_admin # None THEN Refused
    ELSE
        /\ events' = upsert_event_menu_preserve_open(Tomorrow, menu_for_date(Tomorrow))
        /\ flash' = [message |-> "menu_synced", level |-> "success"]
        /\ last' = [route |-> "/admin/sync-tomorrow", status |-> 303,
                    path |-> "/admin"]
        /\ UNCHANGED <<agents, shifts, offers, reservations, reservation_lines,
                       probe, inflight, txn, weekly_menus, admin>>

\* s.split(","): the pieces between the commas
RECURSIVE split_comma(_, _)
split_comma(s, piece) ==
    IF s = <<>> THEN <<piece>>
    ELSE IF Head(s) = "," THEN <<piece>> \o split_comma(Tail(s), <<>>)
    ELSE split_comma(Tail(s), Append(piece, Head(s)))

\* [x.strip() for x in s.split(",") if x.strip()]
parse_items(s) ==
    LET pieces == split_comma(s, <<>>)
        stripped == [i \in 1..Len(pieces) |-> py_strip(pieces[i])]
    IN  SelectSeq(stripped, LAMBDA x : x # <<>>)

\* INSERT INTO weekly_menus ... ON CONFLICT(week_start) DO UPDATE SET menu_json
upsert_weekly_menu(week_start, menu) ==
    {w \in weekly_menus : w.week_start # week_start}
        \cup {[week_start |-> week_start, menu |-> menu]}

\* POST /admin/week-menu/save: form gives the text of each day's field
admin_week_menu_save(week_start, form) ==
    IF require_admin # None THEN Refused
    ELSE
        /\ weekly_menus' =
               upsert_weekly_menu(week_start,
                                  [day \in DayKeys |-> parse_items(form[day])])
        /\ UNCHANGED <<events, agents, shifts, offers, reservations,
                       reservation_lines, flash, last, probe, inflight, txn,
                       admin>>

\* DELETE FROM shifts WHERE shift_date = ?
DeleteShifts_none(table, shift_date) == table

DeleteShifts(table, shift_date) == {x \in table : x.shift_date # shift_date}

\* INSERT OR IGNORE INTO shifts (shift_date, agent_id): the table is
\* UNIQUE(shift_date, agent_id), so a pair that is there is left alone
InsertOrIgnoreShift(table, shift_date, aid) ==
    table \cup {[shift_date |-> shift_date, agent_id |-> aid]}

\* "for aid in agent_ids: conn.execute(INSERT OR IGNORE ...)"
RECURSIVE InsertShifts(_, _, _)
InsertShifts(table, shift_date, agent_ids) ==
    IF agent_ids = <<>> THEN table
    ELSE InsertShifts(InsertOrIgnoreShift(table, shift_date, Head(agent_ids)),
                      shift_date, Tail(agent_ids))

\* the shifts table after set_working_agents_for_date; agent_ids is a list
set_working_agents_for_date(shift_date, agent_ids) ==
    InsertShifts(DeleteShifts(shifts, shift_date), shift_date, agent_ids)

\* POST /admin/shifts/save
admin_shifts_save(shift_date, working_agent_ids) ==
    IF require_admin # None THEN Refused
    ELSE
        /\ shifts' = set_working_agents_for_date(shift_date, working_agent_ids)
        /\ UNCHANGED <<events, agents, offers, reservations, reservation_lines,
                       flash, last, probe, inflight, txn, weekly_menus, admin>>

ClampMax_none(max_per_person) == max_per_person

\* m = int(max(1, max_per_person))
ClampMax(max_per_person) == IF max_per_person < 1 THEN 1 ELSE max_per_person

add_offer_always_insert(offer_date, offer_type, ref, max_per_person) ==
    Append(offers,
           [id |-> Len(offers) + 1, offer_date |-> offer_date,
            offer_type |-> offer_type,
            recipe_id |-> IF offer_type = "MAIN" THEN ref ELSE 0,
            food_id |-> IF offer_type = "SIDE" THEN ref ELSE 0,
            max_per_person |-> ClampMax(max_per_person), is_active |-> TRUE])

\* SELECT id ... WHERE offer_date = ? AND offer_type = ? AND recipe_id / food_id = ?
\* then UPDATE (reactivate, new cap) or INSERT
add_offer(offer_date, offer_type, ref, max_per_person) ==
    LET m == ClampMax(max_per_person)
        same(o) == /\ o.offer_date = offer_date
                   /\ o.offer_type = offer_type
                   /\ (IF offer_type = "MAIN" THEN o.recipe_id ELSE o.food_id) = ref
        hits == {i \in 1..Len(offers) : same(offers[i])}
        first == CHOOSE i \in hits : \A j \in hits : i <= j
    IN  IF hits # {}
        THEN [offers EXCEPT ![first] = [@ EXCEPT !.is_active = TRUE,
                                                 !.max_per_person = m]]
        ELSE Append(offers,
                    [id |-> Len(offers) + 1, offer_date |-> offer_date,
                     offer_type |-> offer_type,
                     recipe_id |-> IF offer_type = "MAIN" THEN ref ELSE 0,  \* 0: NULL
                     food_id |-> IF offer_type = "SIDE" THEN ref ELSE 0,
                     max_per_person |-> m, is_active |-> TRUE])

add_offer_main(offer_date, recipe_id, max_per_person) ==
    add_offer(offer_date, "MAIN", recipe_id, max_per_person)

add_offer_side(offer_date, food_id, max_per_person) ==
    add_offer(offer_date, "SIDE", food_id, max_per_person)

update_offer_max(offer_id, max_per_person) ==
    [i \in 1..Len(offers) |->
        IF offers[i].id = offer_id
        THEN [offers[i] EXCEPT !.max_per_person = ClampMax(max_per_person)]
        ELSE offers[i]]

set_offer_active_deletes(offer_id, is_active) ==
    IF is_active THEN offers
    ELSE SelectSeq(offers, LAMBDA o : o.id # offer_id)

\* UPDATE offers SET is_active = ? WHERE id = ?
set_offer_active(offer_id, is_active) ==
    [i \in 1..Len(offers) |->
        IF offers[i].id = offer_id
        THEN [offers[i] EXCEPT !.is_active = is_active]
        ELSE offers[i]]

\* POST /admin/offers/add-main
admin_offers_add_main(recipe_id, max_per_person) ==
    IF require_admin # None THEN Refused
    ELSE
        /\ offers' = add_offer_main(Tomorrow, recipe_id, max_per_person)
        /\ UNCHANGED <<events, agents, shifts, reservations, reservation_lines,
                       flash, last, probe, inflight, txn, weekly_menus, admin>>

\* POST /admin/offers/add-side
admin_offers_add_side(food_id, max_per_person) ==
    IF require_admin # None THEN Refused
    ELSE
        /\ offers' = add_offer_side(Tomorrow, food_id, max_per_person)
        /\ UNCHANGED <<events, agents, shifts, reservations, reservation_lines,
                       flash, last, probe, inflight, txn, weekly_menus, admin>>

\* POST /admin/offers/update-max
admin_offers_update_max(offer_id, max_per_person) ==
    IF require_admin # None THEN Refused
    ELSE
        /\ offers' = update_offer_max(offer_id, max_per_person)
        /\ UNCHANGED <<events, agents, shifts, reservations, reservation_lines,
                       flash, last, probe, inflight, txn, weekly_menus, admin>>

\* POST /admin/offers/toggle
admin_offers_toggle(offer_id, is_active) ==
    IF require_admin # None THEN Refused
    ELSE
        /\ offers' = set_offer_active(offer_id, is_active)
        /\ UNCHANGED <<events, agents, shifts, reservations, reservation_lines,
                       flash, last, probe, inflight, txn, weekly_menus, admin>>

-----------------------------------------------------------------------------
(* Inputs *)

Txt(n) == py_str(n)

Link(agent, d, k) == [agent |-> agent, d |-> d, k |-> k]

\* the link the admin page sends to agent a
SentLink(a) == Link(Txt(a), Tomorrow, sign_agent_link(a, Tomorrow))

Field(key, val) == [key |-> key, val |-> val]

MkForm(link, bring, main_choice, main_qty, sides) ==
    [agent |-> link.agent, d |-> link.d, k |-> link.k, bring |-> bring,
     main_choice |-> main_choice, main_qty |-> main_qty, sides |-> sides,
     name |-> <<>>]

\* the same form with a field "name" added by the sender
WithName(form, name) == [form EXCEPT !.name = name]

\* what the forms of a day's flow select: a main with an oversized quantity
\* and a field offer_<id> for each offer, or something brought and nothing else
FlowForms ==
    {MkForm(SentLink(a), <<>>, Txt(1), Txt(5),
            <<Field(Txt(1), Txt(5)), Field(Txt(2), Txt(5))>>) : a \in AgentIds}
    \cup {MkForm(SentLink(a), <<"j">>, <<>>, <<>>, <<>>) : a \in AgentIds}

Handlers == {"public", "main"}

\* the registries of the model: agent 2 is "s"; agent 1 has the same name in
\* upper case, or a name whose upper-case letter is not ASCII
Registry(n1) ==
    {[id |-> 1, name |-> n1, is_active |-> TRUE],
     [id |-> 2, name |-> <<"s">>, is_active |-> TRUE]}

Registries == {Registry(<<"S">>), Registry(<<"Eacute">>)}

\* the lists of working_agent_ids the roster page posts
RosterLists == {<<>>, <<1>>, <<2>>, <<1, 2>>}

-----------------------------------------------------------------------------
(* The system *)

Init ==
    /\ events = {}
    /\ agents = Registry(<<"S">>)
    /\ shifts = {}
    /\ offers = <<>>
    /\ reservations = <<>>
    /\ reservation_lines = <<>>
    /\ flash = None
    /\ last = None
    /\ probe = None
    /\ inflight = NoRequest
    /\ txn = None
    /\ weekly_menus = {}
    /\ admin = FALSE

Next ==
    \/ \E h \in Handlers, form \in FlowForms :
          post_reserve(h, form) /\ Len(reservations') <= MaxReservations
    \/ admin_login_post(ADMIN_USERNAME, ADMIN_PASSWORD)
    \/ admin_toggle
    \/ admin_toggle_planned
    \/ \E ids \in RosterLists : admin_shifts_save(Tomorrow, ids)
    \/ \E r \in Recipes, m \in 0..MaxCap : admin_offers_add_main(r, m)
    \/ \E f \in Foods, m \in 0..MaxCap : admin_offers_add_side(f, m)
    \/ \E i \in 1..Len(offers), m \in 0..MaxCap : admin_offers_update_max(i, m)
    \/ \E i \in 1..Len(offers), b \in BOOLEAN : admin_offers_toggle(i, b)

Spec == Init /\ [][Next]_vars

-----------------------------------------------------------------------------
(* The link signer on its own: one call of verify_agent_link on a token    *)
(* that was signed for some (agent, date) and then kept, flipped at one    *)
(* position, or truncated.                                                 *)

ProbeAgents == {1, 2, 12}

\* the characters a flipped position may hold: two hex digits, and one
\* character outside ASCII (a flipped high bit decodes to U+FFFD)
FlipChars == {"0", "f", "Eacute"}

Flip(token, i, c) == [token EXCEPT ![i] = c]

Truncate(token, n) == SubSeq(token, 1, n)

link_check(agent_id, event_date, signed_agent, signed_date, how, token) ==
    /\ probe = None
    /\ inflight = NoRequest
    /\ probe' = [agent_id |-> agent_id, event_date |-> event_date,
                 signed_agent |-> signed_agent, signed_date |-> signed_date,
                 how |-> how, token |-> token,
                 result |-> verify_agent_link(agent_id, event_date, token)]
    /\ UNCHANGED <<events, agents, shifts, offers, reservations,
                   reservation_lines, flash, last, inflight, txn, weekly_menus, admin>>

NextLink ==
    \E a \in ProbeAgents, d \in Dates, sa \in ProbeAgents, sd \in Dates :
        LET signed == sign_agent_link(sa, sd)
        IN  \/ link_check(a, d, sa, sd, "signed", signed)
            \/ \E i \in 1..Len(signed) : \E c \in FlipChars \ {signed[i]} :
                  link_check(a, d, sa, sd, "flipped", Flip(signed, i, c))
            \/ \E n \in 0..(Len(signed) - 1) :
                  link_check(a, d, sa, sd, "truncated", Truncate(signed, n))

SpecLink == Init /\ [][NextLink]_vars

\* C1: verify_agent_link is true on the token signed for the same agent and
\* date, and false on a token signed for another agent or another date, and
\* false on a signed token with one position flipped, or truncated.
C1_LinkRoundTrip ==
    probe # None =>
        /\ (probe.how = "signed" /\ probe.signed_agent = probe.agent_id
                /\ probe.signed_date = probe.event_date)
               => probe.result = "True"
        /\ (probe.how = "signed" /\ (probe.signed_agent # probe.agent_id
                \/ probe.signed_date # probe.event_date))
               => probe.result = "False"
        /\ probe.how \in {"flipped", "truncated"} => probe.result = "False"

-----------------------------------------------------------------------------
(* One submission on a configured day: the tables are as the admin pages   *)
(* and an earlier reservation can have left them, and one POST /reserve    *)
(* arrives, its history kept in last.                                      *)

OfferRow(id, offer_type, max_per_person, is_active) ==
    [id |-> id, offer_date |-> Tomorrow, offer_type |-> offer_type,
     recipe_id |-> IF offer_type = "MAIN" THEN 1 ELSE 0,
     food_id |-> IF offer_type = "SIDE" THEN 1 ELSE 0,
     max_per_person |-> max_per_person, is_active |-> is_active]

Caps == 1..MaxCap

\* no offer; a MAIN; a SIDE; a MAIN then a SIDE
OfferTables ==
    {<<>>}
    \cup {<<OfferRow(1, t, c, b)>> : t \in {"MAIN", "SIDE"}, c \in Caps, b \in BOOLEAN}
    \cup {<<OfferRow(1, "MAIN", c1, b1), OfferRow(2, "SIDE", c2, b2)>> :
            c1 \in Caps, b1 \in BOOLEAN, c2 \in Caps, b2 \in BOOLEAN}

EventTables ==
    {{}} \cup {{[id |-> 1, event_date |-> Tomorrow, menu |-> DEFAULT_MENU,
                 is_open |-> o, is_planned |-> p]} : o \in BOOLEAN, p \in BOOLEAN}

\* the rosters saved for tomorrow; id 3 is no row of table agents
Rosters == {{}, {1, 2}, {1, 3}}

RosterRows(ids) == {[shift_date |-> Tomorrow, agent_id |-> a] : a \in ids}

\* the row an earlier reservation of agent 1 left: something brought, no line
EarlierRow ==
    [id |-> 1, event_id |-> 1, name |-> <<"S">>, bring |-> <<"j">>,
     by |-> [agent |-> Txt(1), d |-> Tomorrow, k |-> sign_agent_link(1, Tomorrow)]]

InitSubmit ==
    /\ agents = Registry(<<"S">>)
    /\ events \in EventTables
    /\ shifts \in {RosterRows(ids) : ids \in Rosters}
    /\ offers \in OfferTables
    /\ reservations \in (IF events # {} /\ offers # <<>>
                         THEN {<<>>, <<EarlierRow>>} ELSE {<<>>})
    /\ reservation_lines = <<>>
    /\ flash = None
    /\ last = None
    /\ probe = None
    /\ inflight = NoRequest
    /\ txn = None
    /\ weekly_menus = {}
    /\ admin = FALSE

\* links: the three sent ones, one padded with a space, and the broken ones
GoodLinks ==
    {SentLink(a) : a \in 1..3}
    \cup {Link(<<" ", "1">>, Tomorrow, sign_agent_link(1, Tomorrow))}

BadLinks ==
    {Link(Txt(1), Tomorrow, sign_agent_link(2, Tomorrow)),
     Link(Txt(1), OtherDay, sign_agent_link(1, OtherDay)),
     Link(Txt(1), Tomorrow, sign_agent_link(1, OtherDay)),
     Link(<<>>, <<>>, <<>>),
     Link(Txt(1), Tomorrow, <<>>),
     Link(<<"x">>, Tomorrow, sign_agent_link(1, Tomorrow)),
     Link(Txt(1), Tomorrow, <<"Eacute">>)}

QtyTexts == {<<>>, Txt(0), Txt(1), Txt(2), Txt(5), <<"x">>, <<"-", "1">>}

SideFields ==
    {<<>>, <<Field(Txt(1), Txt(5))>>}
    \cup {<<Field(Txt(2), q)>> : q \in QtyTexts}

SubmitForms ==
    {MkForm(l, b, <<>>, <<>>, <<>>) : l \in GoodLinks \cup BadLinks, b \in {<<>>, <<"j">>}}
    \cup {MkForm(SentLink(1), <<>>, Txt(1), q, <<>>) : q \in QtyTexts}
    \cup {MkForm(SentLink(1), b, m, <<>>, sd) :
            b \in {<<>>, <<"j">>}, m \in {<<>>, Txt(2), Txt(3), <<"x">>},
            sd \in SideFields}
    \cup {MkForm(SentLink(1), <<>>, Txt(1), Txt(5), sd) :
            sd \in {<<Field(Txt(2), Txt(5))>>,
                    <<Field(Txt(1), Txt(5)), Field(Txt(2), Txt(5))>>}}
    \cup {MkForm(SentLink(1), b, <<>>, <<>>, <<>>) : b \in {<<" ", "TAB">>, <<" ", "j">>}}
    \cup {WithName(MkForm(SentLink(a), <<"j">>, <<>>, <<>>, <<>>), <<"T">>) : a \in {1, 3}}

NextSubmit ==
    \E h \in Handlers, form \in SubmitForms :
        last = None /\ observed_post_reserve(h, form)

SpecSubmit == InitSubmit /\ [][NextSubmit]_vars

-----------------------------------------------------------------------------
(* What the kept history says about the one submission *)

Submitted == last # None

Accepted == Submitted /\ last.reason = "success"

\* the rows and lines the submission added
NewRows == SubSeq(reservations, last.rows + 1, Len(reservations))

NewLines == SubSeq(reservation_lines, last.nlines + 1, Len(reservation_lines))

NothingPersisted ==
    Len(reservations) = last.rows /\ Len(reservation_lines) = last.nlines

\* the name comparison the specification asks for: trimmed, any letter case
Norm(name) == py_lower(py_strip(name))

SubmittedAgent == py_int(py_strip(last.form.agent))

\* the checks of the submission, each taken on its own
FailsNotPlanned == ~last.is_planned

FailsClosed == ~last.is_open

FailsLink ==
    LET n == SubmittedAgent
    IN  \/ py_strip(last.form.agent) = <<>>
        \/ py_strip(last.form.d) = <<>>
        \/ py_strip(last.form.k) = <<>>
        \/ n = NoInt
        \/ py_strip(last.form.d) # Tomorrow
        \/ py_strip(last.form.k) # sign_agent_link(n[1], Tomorrow)
        \/ n[1] \notin {x.agent_id : x \in {y \in shifts : y.shift_date = Tomorrow}}
        \/ ~\E a \in agents : a.id = n[1]

FailsAlready ==
    LET n == SubmittedAgent
    IN  /\ n # NoInt
        /\ \E a \in agents : a.id = n[1]
        /\ \E a \in agents, i \in 1..last.rows :
              /\ a.id = n[1]
              /\ reservations[i].event_id = get_event(Tomorrow).id
              /\ Norm(reservations[i].name) = Norm(a.name)

FailsNoOffers == ~\E i \in 1..Len(offers) : offers[i].offer_date = Tomorrow

\* main_choice names no active MAIN offer of the date
MainInvalid ==
    LET n == py_int(last.form.main_choice)
    IN  /\ last.form.main_choice # <<>>
        /\ \/ n = NoInt
           \/ ~\E i \in 1..Len(offers) :
                 /\ offers[i].id = n[1]
                 /\ offers[i].offer_date = Tomorrow
                 /\ offers[i].offer_type = "MAIN"
                 /\ offers[i].is_active

\* no main is chosen, no side field yields a line, nothing is brought
FailsNothingChosen ==
    /\ py_strip(last.form.bring) = <<>>
    /\ last.form.main_choice = <<>>
    /\ \A j \in 1..Len(last.form.sides) :
          LET key == py_int(last.form.sides[j].key)
              val == py_int(last.form.sides[j].val)
          IN  \/ key = NoInt \/ val = NoInt
              \/ val[1] <= 0
              \/ ~\E i \in 1..Len(offers) :
                    /\ offers[i].id = key[1]
                    /\ offers[i].offer_type = "SIDE"
                    /\ offers[i].is_active

FirstFailing ==
    IF FailsNotPlanned THEN "not_planned"
    ELSE IF FailsClosed THEN "closed"
    ELSE IF FailsLink THEN "link"
    ELSE IF FailsAlready THEN "already"
    ELSE IF FailsNoOffers THEN "no_offers"
    ELSE IF MainInvalid THEN "choice"
    ELSE IF FailsNothingChosen THEN "nothing_chosen"
    ELSE "none"

ReasonClass(reason) ==
    CASE reason \in {"secure", "invalid_link", "expired_or_invalid",
                     "unauthorized", "agent_not_found"} -> "link"
      [] reason \in {"invalid_choice", "invalid_main", "single_main"} -> "choice"
      [] reason = "success" -> "none"
      [] OTHER -> reason

-----------------------------------------------------------------------------
(* Claims about one submission (SpecSubmit) *)

EventDateOf(event_id) == (CHOOSE e \in events : e.id = event_id).event_date

\* C2: every reservation row was made by a submission whose agent, d and k
\* were all non-empty, whose d is the date of the row's event and whose k is
\* the token signed for (agent, d); a submission whose token is not the one
\* signed for its agent and tomorrow persists nothing.
C2_RowsCarryValidLink ==
    /\ \A i \in 1..Len(reservations) :
          LET by == reservations[i].by
              n == py_int(by.agent)
          IN  /\ by.agent # <<>> /\ by.d # <<>> /\ by.k # <<>>
              /\ by.d = EventDateOf(reservations[i].event_id)
              /\ n # NoInt
              /\ by.k = sign_agent_link(n[1], by.d)
    /\ (Submitted /\ (SubmittedAgent = NoInt
                      \/ py_strip(last.form.d) # Tomorrow
                      \/ py_strip(last.form.k)
                            # sign_agent_link(SubmittedAgent[1], Tomorrow)))
          => NothingPersisted

\* a row made by the submission, whose link was typed with a space around the id
C2_Witness ==
    /\ Accepted
    /\ Len(reservations) = last.rows + 1
    /\ last.form.agent = <<" ", "1">>

\* C3: a submission for a day whose event has planned = false is rejected
\* with the reason not_planned, whatever the rest is, and persists nothing.
C3_NotPlannedReason ==
    (Submitted /\ ~last.is_planned) =>
        (last.reason = "not_planned" /\ NothingPersisted)

OfferCap(offer_id) == (CHOOSE o \in Range(offers) : o.id = offer_id).max_per_person

OfferType(offer_id) == (CHOOSE o \in Range(offers) : o.id = offer_id).offer_type

LinesOf(lines, offer_id) == {j \in 1..Len(lines) : lines[j].offer_id = offer_id}

\* C7: on an accepted submission, the chosen main is persisted with its
\* quantity, 1 when the quantity is missing, not a number or below 1, and
\* the cap when it is above the cap; a field of a side is persisted as one
\* line, with the cap when the value is above it, and as no line when the
\* value is missing, not a number, 0 or negative.
C7_QuantityClamping ==
    Accepted =>
        /\ last.form.main_choice # <<>> =>
              LET id == py_int(last.form.main_choice)[1]
                  q == py_int(last.form.main_qty)
                  want == IF q = NoInt \/ q[1] < 1 THEN 1
                          ELSE IF q[1] > OfferCap(id) THEN OfferCap(id)
                          ELSE q[1]
              IN  /\ Cardinality(LinesOf(NewLines, id)) = 1
                  /\ \A j \in LinesOf(NewLines, id) : NewLines[j].qty = want
        /\ \A f \in 1..Len(last.form.sides) :
              LET key == py_int(last.form.sides[f].key)
                  val == py_int(last.form.sides[f].val)
              IN  (/\ key # NoInt
                   /\ \E i \in 1..Len(offers) :
                         /\ offers[i].id = key[1]
                         /\ offers[i].offer_type = "SIDE"
                         /\ offers[i].is_active)
                  => IF val = NoInt \/ val[1] <= 0
                     THEN LinesOf(NewLines, key[1]) = {}
                     ELSE /\ Cardinality(LinesOf(NewLines, key[1])) = 1
                          /\ \A j \in LinesOf(NewLines, key[1]) :
                                NewLines[j].qty =
                                    IF val[1] > OfferCap(key[1])
                                    THEN OfferCap(key[1]) ELSE val[1]

\* a main and a side, both asked 5 times and both persisted at their cap
C7_Witness ==
    /\ Accepted
    /\ last.form.main_qty = Txt(5)
    /\ last.form.sides = <<Field(Txt(2), Txt(5))>>
    /\ Len(NewLines) = 2
    /\ \A j \in 1..2 : NewLines[j].qty = OfferCap(NewLines[j].offer_id)

\* C9: every reservation has at most one line whose offer is of type MAIN,
\* whatever fields the form holds: the MAIN line of an accepted submission
\* is the offer main_choice names, and no field offer_<id> adds another.
C9_SingleMainLine ==
    /\ \A r \in 1..Len(reservations) :
          Cardinality({j \in 1..Len(reservation_lines) :
              /\ reservation_lines[j].reservation_id = reservations[r].id
              /\ OfferType(reservation_lines[j].offer_id) = "MAIN"}) <= 1
    /\ Accepted =>
          \A j \in 1..Len(NewLines) :
              OfferType(NewLines[j].offer_id) = "MAIN" =>
                  /\ last.form.main_choice # <<>>
                  /\ py_int(last.form.main_choice) = <<NewLines[j].offer_id>>

\* a forged form: the main is chosen, and also sent as a field offer_1
C9_Witness ==
    /\ Accepted
    /\ last.form.main_choice = Txt(1)
    /\ last.form.sides = <<Field(Txt(1), Txt(5)), Field(Txt(2), Txt(5))>>
    /\ Len(NewLines) = 2
    /\ OfferType(1) = "MAIN"

\* C10: a submission that passes the event, link, roster, duplicate and
\* no_offers checks and whose main_choice names no active MAIN offer of the
\* date is rejected with the invalid-choice reason; no row, no line is added.
C10_InvalidMainRejected ==
    (/\ Submitted
     /\ ~FailsNotPlanned /\ ~FailsClosed /\ ~FailsLink /\ ~FailsAlready
     /\ ~FailsNoOffers
     /\ MainInvalid)
    => /\ last.reason \in {"invalid_choice", "invalid_main"}
       /\ last.level = "error"
       /\ NothingPersisted

\* main_choice names the side of the day, and the same form asks for it as a side
C10_Witness ==
    /\ Submitted
    /\ last.form.main_choice = Txt(2)
    /\ last.form.sides = <<Field(Txt(2), Txt(5))>>
    /\ \E i \in 1..Len(offers) :
          offers[i].id = 2 /\ offers[i].offer_type = "SIDE" /\ offers[i].is_active
    /\ last.reason = "invalid_main"
    /\ NothingPersisted

-----------------------------------------------------------------------------
(* Claims about a day of admin operations and reservations (Spec) *)

\* C8, as stated: every reservation line has qty >= 1 and qty <= the
\* max_per_person its offer has now.
C8_LineWithinCurrentCap ==
    \A j \in 1..Len(reservation_lines) :
        /\ reservation_lines[j].qty >= 1
        /\ reservation_lines[j].qty <= OfferCap(reservation_lines[j].offer_id)

\* C8, amended: a line is written with qty >= 1 and qty <= the
\* max_per_person its offer has when the submission is validated, and no
\* later step changes a line: a cap lowered afterwards leaves it as it is.
C8_LineWithinCapWhenWritten ==
    [][/\ Len(reservation_lines') >= Len(reservation_lines)
       /\ \A j \in 1..Len(reservation_lines) :
             reservation_lines'[j] = reservation_lines[j]
       /\ \A j \in (Len(reservation_lines) + 1)..Len(reservation_lines') :
             /\ reservation_lines'[j].qty >= 1
             /\ reservation_lines'[j].qty
                    <= OfferCap(reservation_lines'[j].offer_id)]_vars

\* a line of 2 on an active offer whose cap was lowered to 1 afterwards
C8_Witness ==
    \E j \in 1..Len(reservation_lines) :
        /\ reservation_lines[j].qty = 2
        /\ \E i \in 1..Len(offers) :
              /\ offers[i].id = reservation_lines[j].offer_id
              /\ offers[i].max_per_person = 1
              /\ offers[i].is_active

-----------------------------------------------------------------------------
(* Two agents reserving on an open day, one request after the other         *)

OpenDay ==
    {[id |-> 1, event_date |-> Tomorrow, menu |-> DEFAULT_MENU,
      is_open |-> TRUE, is_planned |-> TRUE]}

InitDup ==
    /\ agents \in Registries
    /\ events = OpenDay
    /\ shifts = RosterRows(AgentIds)
    /\ offers = <<OfferRow(1, "MAIN", 1, TRUE)>>
    /\ reservations = <<>>
    /\ reservation_lines = <<>>
    /\ flash = None
    /\ last = None
    /\ probe = None
    /\ inflight = NoRequest
    /\ txn = None
    /\ weekly_menus = {}
    /\ admin = FALSE

NextDup ==
    \E h \in Handlers, form \in FlowForms :
        /\ observed_post_reserve(h, form)
        /\ Len(reservations') <= MaxReservations + 1

SpecDup == InitDup /\ [][NextDup]_vars

\* C5: once a reservation exists for the event under a name, a submission
\* that passes the event and link checks and whose agent's name is equal to
\* it, trimmed and whatever the letter case, is rejected with the reason
\* already and adds no row.
C5_DuplicateRejected ==
    (Submitted /\ ~FailsNotPlanned /\ ~FailsClosed /\ ~FailsLink /\ FailsAlready)
        => (last.reason = "already" /\ NothingPersisted)

-----------------------------------------------------------------------------
(* POST /reserve in two steps, for requests served by different worker     *)
(* processes on the same database file: the reads up to the duplicate and  *)
(* offer checks, then the writes.                                          *)

reserve_begin(c, h, form) ==
    \E event \in {EnsuredEvent} :
        /\ inflight[c] = None
        /\ events' = EnsuredEvents
        /\ inflight' = [inflight EXCEPT ![c] =
                            [form |-> form, event_id |-> event.id,
                             out |-> Validate(h, form, event)]]
        /\ UNCHANGED <<agents, shifts, offers, reservations, reservation_lines,
                       flash, last, probe, txn, weekly_menus, admin>>

reserve_end(c) ==
    \E req \in {inflight[c]} :
        /\ req # None
        /\ Persist(req.form, req.event_id, req.out)
        /\ inflight' = [inflight EXCEPT ![c] = None]
        /\ UNCHANGED <<events, agents, shifts, offers, last, probe, txn, weekly_menus, admin>>

NextConc ==
    \/ \E c \in Clients, h \in Handlers, form \in FlowForms :
          reserve_begin(c, h, form)
    \/ \E c \in Clients :
          reserve_end(c) /\ Len(reservations') <= MaxReservations + 1

SpecConc == InitDup /\ [][NextConc]_vars

\* C6: whatever the interleaving of the submissions, no two reservations of
\* one event carry names that are equal once trimmed and lower-cased.
C6_OneReservationPerName ==
    \A i \in 1..Len(reservations), j \in 1..Len(reservations) :
        (i < j /\ reservations[i].event_id = reservations[j].event_id)
            => Norm(reservations[i].name) # Norm(reservations[j].name)

-----------------------------------------------------------------------------
(* The day of the worked example: the event is planned and open, the      *)
(* offers are a MAIN (max 1) with id 1 and a SIDE (max 3) with id 2,      *)
(* agents 7 ("Sam") and 8 ("Tom") are on the roster, and submissions      *)
(* arrive one after the other.                                            *)

Sam == <<"S", "a", "m">>

Tom == <<"T", "o", "m">>

Juice == <<"j", "u", "i", "c", "e">>

ScenarioRegistry ==
    {[id |-> 7, name |-> Sam, is_active |-> TRUE],
     [id |-> 8, name |-> Tom, is_active |-> TRUE]}

InitScenario ==
    /\ agents = ScenarioRegistry
    /\ events = OpenDay
    /\ shifts = RosterRows({7, 8})
    /\ offers = <<OfferRow(1, "MAIN", 1, TRUE), OfferRow(2, "SIDE", 3, TRUE)>>
    /\ reservations = <<>>
    /\ reservation_lines = <<>>
    /\ flash = None
    /\ last = None
    /\ probe = None
    /\ inflight = NoRequest
    /\ txn = None
    /\ weekly_menus = {}
    /\ admin = FALSE

\* Sam's forms, and two of Tom's
ScenarioForms ==
    {MkForm(SentLink(7), b, m, IF m = <<>> THEN <<>> ELSE Txt(1), sd) :
        b \in {<<>>, Juice, <<" ">> \o Juice \o <<" ">>},
        m \in {<<>>, Txt(1), Txt(2)},
        sd \in {<<>>, <<Field(Txt(2), Txt(5))>>}}
    \cup {MkForm(SentLink(8), <<>>, Txt(1), Txt(5), <<Field(Txt(2), Txt(2))>>),
          MkForm(SentLink(8), Juice, <<>>, <<>>, <<>>)}

NextScenario ==
    \E h \in Handlers, form \in ScenarioForms :
        /\ observed_post_reserve(h, form)
        /\ Len(reservations') <= MaxReservations + 1

SpecScenario == InitScenario /\ [][NextScenario]_vars

\* the submission came with the link sent to agent a
LinkOf(a) ==
    /\ SubmittedAgent = <<a>>
    /\ py_strip(last.form.d) = Tomorrow
    /\ py_strip(last.form.k) = sign_agent_link(a, Tomorrow)

\* a reservation under this name was there when the submission arrived
HadReserved(name) ==
    \E i \in 1..last.rows :
        /\ reservations[i].name = name
        /\ reservations[i].event_id = get_event(Tomorrow).id

\* main_choice is the id of a SIDE offer
MainNamesSide ==
    LET n == py_int(last.form.main_choice)
    IN  /\ last.form.main_choice # <<>>
        /\ n # NoInt
        /\ \E i \in 1..Len(offers) :
              offers[i].id = n[1] /\ offers[i].offer_type = "SIDE"

\* C11, as stated: after Sam has one reservation for the event, a second
\* submission by Sam with the valid link and a main_choice that names a
\* SIDE offer is rejected with the reason invalid choice, no row persisted.
C11_ForgedSecondInvalidChoice ==
    (Submitted /\ LinkOf(7) /\ HadReserved(Sam) /\ MainNamesSide)
        => /\ last.reason \in {"invalid_choice", "invalid_main"}
           /\ NothingPersisted

\* C11, amended: that second submission is rejected with the reason
\* already, because the duplicate check comes before the offer checks, and
\* persists nothing; the same forged main_choice sent while Sam has no
\* reservation is rejected with the reason invalid choice, nothing persisted.
C11_ForgedSecondAlready ==
    /\ (Submitted /\ LinkOf(7) /\ HadReserved(Sam) /\ MainNamesSide)
          => /\ last.reason = "already"
             /\ last.level = "warning"
             /\ NothingPersisted
    /\ (Submitted /\ LinkOf(7) /\ ~HadReserved(Sam) /\ MainNamesSide)
          => /\ last.reason = "invalid_main"
             /\ NothingPersisted

\* Sam's reservation with a main, a side and juice is there, and the
\* forged second submission has been answered
C11_Witness ==
    /\ Submitted /\ LinkOf(7) /\ HadReserved(Sam) /\ MainNamesSide
    /\ last.form.main_choice = Txt(2)
    /\ last.rows = 1
    /\ reservations[1].bring = Juice
    /\ Len(reservation_lines) = 2
    /\ NothingPersisted

\* the lines the specification asks for: the chosen main with its clamped
\* quantity, then one clamped line per valid side field
RECURSIVE WantedSides(_)
WantedSides(fields) ==
    IF fields = <<>> THEN <<>>
    ELSE LET key == py_int(Head(fields).key)
             val == py_int(Head(fields).val)
             ok == /\ key # NoInt /\ val # NoInt /\ val[1] > 0
                   /\ \E i \in 1..Len(offers) :
                         /\ offers[i].id = key[1]
                         /\ offers[i].offer_date = Tomorrow
                         /\ offers[i].offer_type = "SIDE"
                         /\ offers[i].is_active
         IN  (IF ok
              THEN <<[offer_id |-> key[1],
                      qty |-> IF val[1] > OfferCap(key[1])
                              THEN OfferCap(key[1]) ELSE val[1]]>>
              ELSE <<>>)
             \o WantedSides(Tail(fields))

WantedMain ==
    IF last.form.main_choice = <<>> THEN <<>>
    ELSE LET id == py_int(last.form.main_choice)[1]
             q == py_int(last.form.main_qty)
         IN  <<[offer_id |-> id,
                qty |-> IF q = NoInt \/ q[1] < 1 THEN 1
                        ELSE IF q[1] > OfferCap(id) THEN OfferCap(id)
                        ELSE q[1]]>>

WantedLines == WantedMain \o WantedSides(last.form.sides)

PairsOf(lines) == [j \in 1..Len(lines) |-> <<lines[j].offer_id, lines[j].qty>>]

RegistryName(aid) == (CHOOSE a \in agents : a.id = aid).name

\* C12: a submission that passes every check is accepted; it adds exactly
\* one reservation, of tomorrow's event, under the registry name of the
\* agent, with the trimmed bring note; its lines are the validated main
\* line, if any, then one clamped line per valid side field; the flash is
\* the success message.  Main (max 1) qty 1, side (max 3) qty 5 and bring
\* "juice" give the lines <<(1, 1), (2, 3)>>.
C12_AcceptedPersistsExactly ==
    /\ (Submitted /\ FirstFailing = "none") => Accepted
    /\ Accepted =>
          /\ Len(reservations) = last.rows + 1
          /\ LET r == reservations[Len(reservations)]
             IN  /\ r.id = Len(reservations)
                 /\ r.event_id = get_event(Tomorrow).id
                 /\ r.name = RegistryName(SubmittedAgent[1])
                 /\ r.bring = py_strip(last.form.bring)
                 /\ \A j \in 1..Len(NewLines) : NewLines[j].reservation_id = r.id
          /\ PairsOf(NewLines) = PairsOf(WantedLines)
          /\ \A j \in 1..last.nlines :
                reservation_lines[j].reservation_id # Len(reservations)
          /\ flash = [message |-> "success", level |-> "success"]
    /\ (/\ Accepted /\ LinkOf(7)
        /\ last.form.main_choice = Txt(1) /\ last.form.main_qty = Txt(1)
        /\ last.form.sides = <<Field(Txt(2), Txt(5))>>
        /\ py_strip(last.form.bring) = Juice)
          => /\ reservations[Len(reservations)].name = Sam
             /\ reservations[Len(reservations)].bring = Juice
             /\ PairsOf(NewLines) = <<<<1, 1>>, <<2, 3>>>>

\* the worked example, its bring note typed with spaces around it
C12_Witness ==
    /\ Accepted /\ LinkOf(7)
    /\ last.form.main_choice = Txt(1) /\ last.form.main_qty = Txt(1)
    /\ last.form.sides = <<Field(Txt(2), Txt(5))>>
    /\ last.form.bring = <<" ">> \o Juice \o <<" ">>
    /\ last.rows = 0
    /\ PairsOf(NewLines) = <<<<1, 1>>, <<2, 3>>>>

-----------------------------------------------------------------------------
(* More claims about one submission (SpecSubmit) *)

\* a field offer_<key> with a positive quantity whose key is the id of no
\* offer of the date, or of an offer that is not a SIDE or not active
SkippedField(field) ==
    LET key == py_int(field.key)
        val == py_int(field.val)
    IN  /\ key # NoInt /\ val # NoInt /\ val[1] > 0
        /\ ~\E i \in 1..Len(offers) :
              /\ offers[i].id = key[1]
              /\ offers[i].offer_date = Tomorrow
              /\ offers[i].offer_type = "SIDE"
              /\ offers[i].is_active

HasSkippedField(form) == \E j \in 1..Len(form.sides) : SkippedField(form.sides[j])

\* the form as it is when those fields are absent
WithoutSkipped(form) ==
    [form EXCEPT !.sides = SelectSeq(form.sides, LAMBDA f : ~SkippedField(f))]

\* C13: a side field with a positive quantity whose offer id does not exist
\* for the date, is not of type SIDE or is not active yields no line, and
\* the submission is answered and persisted exactly as the same submission
\* without that field: same reason, same row or none, same lines.
C13_InvalidSideSkipped ==
    /\ [](Accepted =>
            \A j \in 1..Len(last.form.sides) :
                (/\ SkippedField(last.form.sides[j])
                 /\ py_int(last.form.sides[j].key) # py_int(last.form.main_choice))
                => LinesOf(NewLines, py_int(last.form.sides[j].key)[1]) = {})
    /\ [][(last = None /\ last' # None /\ HasSkippedField(last'.form)) =>
            \E out \in {Validate(last'.h, WithoutSkipped(last'.form), EnsuredEvent)} :
                /\ last'.reason = out.reason
                /\ last'.level = out.level
                /\ last'.redirect = out.redirect
                /\ Len(reservations') = Len(reservations) + (IF out.persist THEN 1 ELSE 0)
                /\ Len(reservation_lines') = Len(reservation_lines) + Len(out.lines)
                /\ \A j \in 1..Len(out.lines) :
                      LET l == reservation_lines'[Len(reservation_lines) + j]
                      IN  l.offer_id = out.lines[j].offer_id /\ l.qty = out.lines[j].qty
          ]_vars

\* the main sent again as a side field, and a side that is not active: the
\* submission is accepted with the main line only
C13_Witness ==
    /\ Accepted
    /\ last.form.main_choice = Txt(1)
    /\ last.form.sides = <<Field(Txt(1), Txt(5)), Field(Txt(2), Txt(5))>>
    /\ \A j \in 1..2 : SkippedField(last.form.sides[j])
    /\ Len(offers) = 2 /\ ~offers[2].is_active
    /\ PairsOf(NewLines) = <<<<1, OfferCap(1)>>>>

\* the submission passes every check before the one on the choice
PassesToChoice ==
    /\ Submitted
    /\ ~FailsNotPlanned /\ ~FailsClosed /\ ~FailsLink /\ ~FailsAlready
    /\ ~FailsNoOffers /\ ~MainInvalid

\* no main is chosen and no side field yields a line
NoValidLine == last.form.main_choice = <<>> /\ WantedSides(last.form.sides) = <<>>

\* C14: a submission whose validated line set is empty is rejected with the
\* reason nothing_chosen, persisting nothing, when its trimmed bring note is
\* empty, and is accepted, persisting one reservation with that note and no
\* line, when the trimmed note is not empty.
C14_NothingChosen ==
    /\ (PassesToChoice /\ NoValidLine /\ py_strip(last.form.bring) = <<>>)
          => /\ last.reason = "nothing_chosen"
             /\ last.level = "warning"
             /\ NothingPersisted
    /\ (PassesToChoice /\ NoValidLine /\ py_strip(last.form.bring) # <<>>)
          => /\ Accepted
             /\ Len(reservations) = last.rows + 1
             /\ reservations[Len(reservations)].bring = py_strip(last.form.bring)
             /\ Len(reservation_lines) = last.nlines
             /\ \A j \in 1..Len(reservation_lines) :
                   reservation_lines[j].reservation_id # Len(reservations)

\* a note typed after a space, no main and no side: a row and no line
C14_Witness ==
    /\ PassesToChoice /\ NoValidLine /\ Accepted
    /\ last.form.bring = <<" ", "j">>
    /\ Len(reservations) = last.rows + 1
    /\ reservations[Len(reservations)].bring = <<"j">>
    /\ Len(reservation_lines) = 0

OnRoster(a) == \E x \in shifts : x.shift_date = Tomorrow /\ x.agent_id = a

\* C15: a submission with the token signed for (agent_id, tomorrow) whose
\* agent_id is not on tomorrow's roster persists nothing and, the event
\* being planned and open, is answered with the unauthorized-link error;
\* the agent of every accepted submission is on the roster.
C15_RosterRequired ==
    /\ \A a \in 1..3 :
          (Submitted /\ LinkOf(a) /\ ~OnRoster(a))
              => /\ NothingPersisted
                 /\ (~FailsNotPlanned /\ ~FailsClosed)
                       => (last.reason = "unauthorized" /\ last.level = "error")
    /\ Accepted => (SubmittedAgent # NoInt /\ OnRoster(SubmittedAgent[1]))

\* agent 2 is registered, holds a valid link and is not among {1, 3}
C15_Witness ==
    /\ Submitted /\ LinkOf(2) /\ ~OnRoster(2) /\ OnRoster(1)
    /\ \E a \in agents : a.id = 2
    /\ last.reason = "unauthorized"
    /\ NothingPersisted

\* C16: the name of the row an accepted submission adds is the name the
\* registry holds for the agent of the link, whatever the form's fields are,
\* a field "name" included; a submission whose verified, rostered agent_id
\* is no row of the registry is rejected and persists nothing.
C16_NameFromRegistry ==
    /\ Accepted =>
          /\ Len(reservations) = last.rows + 1
          /\ \E a \in agents :
                /\ <<a.id>> = SubmittedAgent
                /\ reservations[Len(reservations)].name = a.name
    /\ \A a \in 1..3 :
          (Submitted /\ LinkOf(a) /\ ~\E x \in agents : x.id = a)
              => /\ NothingPersisted
                 /\ (~FailsNotPlanned /\ ~FailsClosed /\ OnRoster(a))
                       => last.reason = "agent_not_found"

\* a form that carries a field name = "T": the row is named "S" all the same
C16_Witness ==
    /\ Accepted /\ LinkOf(1)
    /\ last.form.name = <<"T">>
    /\ reservations[Len(reservations)].name = <<"S">>

-----------------------------------------------------------------------------
(* Write transactions (db.py, "with get_conn() as conn").  sqlite3 opens a *)
(* transaction before the first DELETE / INSERT / UPDATE of a connection   *)
(* and commits it when the with block ends.  Until then the statements are *)
(* in the connection's own view of the table, txn.pending; the other       *)
(* connections read the committed table, and no other connection writes.   *)

\* what the other connections read of a table a transaction has written to
\* and not committed
uncommitted_autocommit(committed, pending) == pending

uncommitted(committed, pending) == committed

\* no connection holds the write lock
LockFree == IF txn = None THEN TRUE ELSE txn.phase = "committed"

Others == <<events, agents, offers, flash, last, probe, weekly_menus, admin>>

\* set_working_agents_for_date, statement by statement: DELETE
shifts_delete(shift_date, agent_ids) ==
    /\ LockFree
    /\ \E pending \in {DeleteShifts(shifts, shift_date)} :
          /\ txn' = [op |-> "shifts", shift_date |-> shift_date,
                     agent_ids |-> agent_ids, before |-> shifts,
                     pending |-> pending, todo |-> agent_ids, phase |-> "open"]
          /\ shifts' = uncommitted(shifts, pending)
    /\ UNCHANGED <<Others, reservations, reservation_lines, inflight>>

\* one INSERT OR IGNORE of the loop
shifts_insert ==
    /\ txn # None /\ txn.op = "shifts" /\ txn.phase = "open" /\ txn.todo # <<>>
    /\ \E pending \in {InsertOrIgnoreShift(txn.pending, txn.shift_date, Head(txn.todo))} :
          /\ txn' = [txn EXCEPT !.pending = pending, !.todo = Tail(txn.todo)]
          /\ shifts' = uncommitted(shifts, pending)
    /\ UNCHANGED <<Others, reservations, reservation_lines, inflight>>

\* the end of the with block: commit
shifts_commit ==
    /\ txn # None /\ txn.op = "shifts" /\ txn.phase = "open" /\ txn.todo = <<>>
    /\ shifts' = txn.pending
    /\ txn' = [txn EXCEPT !.phase = "committed"]
    /\ UNCHANGED <<Others, reservations, reservation_lines, inflight>>

-----------------------------------------------------------------------------
(* Roster saves on their own: any date, lists with repeated ids *)

SaveLists == {<<>>, <<1, 2>>, <<2, 3>>, <<3, 3>>}

NextRoster ==
    \/ \E d \in Dates, ids \in SaveLists : shifts_delete(d, ids)
    \/ shifts_insert
    \/ shifts_commit

SpecRoster == Init /\ [][NextRoster]_vars

RosterOf(table, shift_date) ==
    {x.agent_id : x \in {y \in table : y.shift_date = shift_date}}

\* the last roster save is committed
Saved == txn # None /\ txn.op = "shifts" /\ txn.phase = "committed"

\* C17: once set_working_agents_for_date(date, ids) has returned, the roster
\* of the date is exactly the set of the ids given, whatever it was before
\* and however often an id is repeated, and the rows of every other date
\* are those that were there before.
C17_RosterReplaced ==
    Saved =>
        /\ list_working_agent_ids(txn.shift_date) = Range(txn.agent_ids)
        /\ \A x \in shifts : x.shift_date = txn.shift_date => x.agent_id \in Range(txn.agent_ids)
        /\ {x \in shifts : x.shift_date # txn.shift_date}
              = {x \in txn.before : x.shift_date # txn.shift_date}

\* [1, 2] was saved for tomorrow, another date has a roster too, and [2, 3]
\* is saved for tomorrow: exactly {2, 3} is left
C17_Witness ==
    /\ Saved
    /\ txn.shift_date = Tomorrow /\ txn.agent_ids = <<2, 3>>
    /\ RosterOf(txn.before, Tomorrow) = {1, 2}
    /\ RosterOf(txn.before, OtherDay) = {3}
    /\ list_working_agent_ids(Tomorrow) = {2, 3}
    /\ list_working_agent_ids(OtherDay) = {3}

-----------------------------------------------------------------------------
(* Reservations while the roster is saved: the requests are served by      *)
(* threads and worker processes with a connection each.                    *)

\* the request has passed its checks and has lines to write
HasLines(req) == req # None /\ req.out.persist /\ req.out.lines # <<>>

\* create_reservation of a request with lines: its own transaction, one INSERT
reserve_create(c) ==
    \E req \in {inflight[c]} :
        /\ HasLines(req) /\ "reservation_id" \notin DOMAIN req
        /\ LockFree
        /\ reservations' = create_reservation(req.event_id, req.out.name, req.out.bring,
                               [agent |-> py_strip(req.form.agent),
                                d |-> py_strip(req.form.d), k |-> py_strip(req.form.k)])
        /\ inflight' = [inflight EXCEPT ![c] =
                            [form |-> req.form, event_id |-> req.event_id,
                             out |-> req.out,
                             reservation_id |-> Len(reservations) + 1]]
        /\ UNCHANGED <<Others, shifts, reservation_lines, txn>>

\* set_reservation_lines, statement by statement: DELETE
lines_delete(c) ==
    \E req \in {inflight[c]} :
        /\ HasLines(req) /\ "reservation_id" \in DOMAIN req
        /\ LockFree
        /\ \E pending \in {SelectSeq2(reservation_lines, req.reservation_id)} :
              /\ txn' = [op |-> "lines", client |-> c,
                         reservation_id |-> req.reservation_id,
                         lines |-> req.out.lines, before |-> reservation_lines,
                         pending |-> pending, todo |-> req.out.lines,
                         phase |-> "open"]
              /\ reservation_lines' = uncommitted(reservation_lines, pending)
        /\ UNCHANGED <<Others, shifts, reservations, inflight>>

\* executemany: one INSERT per line
lines_insert ==
    /\ txn # None /\ txn.op = "lines" /\ txn.phase = "open" /\ txn.todo # <<>>
    /\ \E pending \in {Append(txn.pending,
                              [reservation_id |-> txn.reservation_id,
                               offer_id |-> Head(txn.todo).offer_id,
                               qty |-> Head(txn.todo).qty])} :
          /\ txn' = [txn EXCEPT !.pending = pending, !.todo = Tail(txn.todo)]
          /\ reservation_lines' = uncommitted(reservation_lines, pending)
    /\ UNCHANGED <<Others, shifts, reservations, inflight>>

\* commit, then the success flash and the redirect
lines_commit ==
    /\ txn # None /\ txn.op = "lines" /\ txn.phase = "open" /\ txn.todo = <<>>
    /\ reservation_lines' = txn.pending
    /\ txn' = [txn EXCEPT !.phase = "committed"]
    /\ flash' = [message |-> "success", level |-> "success"]
    /\ inflight' = [inflight EXCEPT ![txn.client] = None]
    /\ UNCHANGED <<events, agents, offers, last, probe, shifts, reservations,
                   weekly_menus, admin>>

InitReplace ==
    /\ agents = Registry(<<"S">>)
    /\ events = OpenDay
    /\ shifts = RosterRows({1, 2})
    /\ offers = <<OfferRow(1, "MAIN", 1, TRUE), OfferRow(2, "SIDE", 2, TRUE)>>
    /\ reservations = <<>>
    /\ reservation_lines = <<>>
    /\ flash = None
    /\ last = None
    /\ probe = None
    /\ inflight = NoRequest
    /\ txn = None
    /\ weekly_menus = {}
    /\ admin = FALSE

\* a main and a side for agent 1; something brought, or nothing, for agent 2
ReplaceForms ==
    {MkForm(SentLink(1), <<>>, Txt(1), Txt(1), <<Field(Txt(2), Txt(5))>>),
     MkForm(SentLink(2), <<"j">>, <<>>, <<>>, <<>>),
     MkForm(SentLink(2), <<>>, <<>>, <<>>, <<>>)}

ReplaceLists == {<<1>>, <<1, 2>>, <<2, 1>>}

NextReplace ==
    \/ \E ids \in ReplaceLists : shifts_delete(Tomorrow, ids)
    \/ shifts_insert
    \/ shifts_commit
    \/ \E c \in Clients, h \in Handlers, form \in ReplaceForms :
          reserve_begin(c, h, form)
    \/ \E c \in Clients :
          /\ ~HasLines(inflight[c])
          /\ inflight[c] # None /\ inflight[c].out.persist => LockFree
          /\ reserve_end(c)
    \/ \E c \in Clients : reserve_create(c)
    \/ \E c \in Clients : lines_delete(c)
    \/ lines_insert
    \/ lines_commit

SpecReplace == InitReplace /\ [][NextReplace]_vars

LinesOfReservation(table, rid) ==
    PairsOf(SelectSeq(table, LAMBDA l : l.reservation_id = rid))

\* C18: while set_working_agents_for_date or set_reservation_lines runs and
\* after it, the other connections read the complete old set or the complete
\* new set of the date or of the reservation, nothing in between; a request
\* that reads the roster while it is saved is not answered unauthorized
\* when its agent is in the old and in the new roster.
C18_ReplaceAtomic ==
    /\ []((txn # None /\ txn.op = "shifts") =>
            /\ list_working_agent_ids(txn.shift_date)
                  \in {RosterOf(txn.before, txn.shift_date), Range(txn.agent_ids)}
            /\ txn.phase = "open" => shifts = txn.before)
    /\ []((txn # None /\ txn.op = "lines") =>
            /\ LinesOfReservation(reservation_lines, txn.reservation_id)
                  \in {LinesOfReservation(txn.before, txn.reservation_id),
                       PairsOf(txn.lines)}
            /\ txn.phase = "open" => reservation_lines = txn.before)
    /\ [][\A c \in Clients, a \in AgentIds :
            (/\ txn # None /\ txn.op = "shifts"
             /\ inflight[c] = None /\ inflight'[c] # None
             /\ py_int(py_strip(inflight'[c].form.agent)) = <<a>>
             /\ a \in RosterOf(txn.before, Tomorrow)
             /\ a \in Range(txn.agent_ids))
            => inflight'[c].out.reason # "unauthorized"]_vars

\* the roster [2, 1] is half re-inserted in the saving connection, agent 1
\* is in the old and the new roster, and a request of agent 1 has passed its
\* checks
C18_Witness ==
    /\ txn # None /\ txn.op = "shifts" /\ txn.phase = "open"
    /\ txn.agent_ids = <<2, 1>> /\ txn.todo = <<1>>
    /\ RosterOf(txn.pending, Tomorrow) = {2}
    /\ 1 \in RosterOf(txn.before, Tomorrow)
    /\ \E c \in Clients :
          /\ inflight[c] # None
          /\ py_strip(inflight[c].form.agent) = Txt(1)
          /\ inflight[c].out.persist

-----------------------------------------------------------------------------
(* The offer catalog on its own: the four writes of db.py, called one      *)
(* after the other with any date and any integer cap; txn keeps the last   *)
(* call and the table it found.                                            *)

Called(op, offer_date, key, value) ==
    [op |-> op, offer_date |-> offer_date, key |-> key, value |-> value,
     before |-> offers, phase |-> "committed"]

NotOffers == <<events, agents, shifts, reservations, reservation_lines,
               flash, last, probe, inflight, weekly_menus, admin>>

call_add_offer_main(offer_date, recipe_id, max_per_person) ==
    /\ offers' = add_offer_main(offer_date, recipe_id, max_per_person)
    /\ txn' = Called("add_offer_main", offer_date, recipe_id, max_per_person)
    /\ UNCHANGED NotOffers

call_add_offer_side(offer_date, food_id, max_per_person) ==
    /\ offers' = add_offer_side(offer_date, food_id, max_per_person)
    /\ txn' = Called("add_offer_side", offer_date, food_id, max_per_person)
    /\ UNCHANGED NotOffers

call_update_offer_max(offer_id, max_per_person) ==
    /\ offers' = update_offer_max(offer_id, max_per_person)
    /\ txn' = Called("update_offer_max", <<>>, offer_id, max_per_person)
    /\ UNCHANGED NotOffers

\* is_active is the int of the form; the table gets 1 if bool(is_active) else 0
call_set_offer_active(offer_id, is_active) ==
    /\ offers' = set_offer_active(offer_id, is_active # 0)
    /\ txn' = Called("set_offer_active", <<>>, offer_id, is_active)
    /\ UNCHANGED NotOffers

\* the integers a form submits as max_per_person
CapInputs == (0 - 1)..MaxCap

NextOffers ==
    \/ \E d \in Dates, r \in Recipes, m \in CapInputs : call_add_offer_main(d, r, m)
    \/ \E f \in Foods, m \in CapInputs : call_add_offer_side(Tomorrow, f, m)
    \/ \E i \in 1..(Len(offers) + 1), m \in CapInputs : call_update_offer_max(i, m)
    \/ \E i \in 1..(Len(offers) + 1), b \in {0, 1} : call_set_offer_active(i, b)

SpecOffers == Init /\ [][NextOffers]_vars

OfferKey(o) == <<o.offer_date, o.offer_type, o.recipe_id, o.food_id>>

\* the rows of a table for (date, type, reference)
RowsFor(table, offer_date, offer_type, ref) ==
    {i \in 1..Len(table) :
        /\ table[i].offer_date = offer_date
        /\ table[i].offer_type = offer_type
        /\ (IF offer_type = "MAIN" THEN table[i].recipe_id ELSE table[i].food_id) = ref}

LastCall(ops) == txn # None /\ txn.op \in ops

TypeOfCall == IF txn.op = "add_offer_main" THEN "MAIN" ELSE "SIDE"

\* C19: no two offers have the same (date, type, reference); after
\* add_offer_main or add_offer_side there is exactly one offer for the key
\* of the call, active, with the clamped cap of the call, and it is the row
\* that was there before when there was one, active or not.
C19_OneOfferPerKey ==
    /\ \A i \in 1..Len(offers), j \in 1..Len(offers) :
          i < j => OfferKey(offers[i]) # OfferKey(offers[j])
    /\ LastCall({"add_offer_main", "add_offer_side"}) =>
          LET now == RowsFor(offers, txn.offer_date, TypeOfCall, txn.key)
              was == RowsFor(txn.before, txn.offer_date, TypeOfCall, txn.key)
          IN  /\ Cardinality(now) = 1
              /\ \A i \in now :
                    /\ offers[i].is_active
                    /\ offers[i].max_per_person = (IF txn.value < 1 THEN 1 ELSE txn.value)
              /\ was # {} => (was = now /\ Len(offers) = Len(txn.before))
              /\ was = {} => Len(offers) = Len(txn.before) + 1

\* the main of tomorrow was there with cap 1, not active, and is added
\* again with cap 2: the same row, active, cap 2
C19_Witness ==
    /\ LastCall({"add_offer_main"})
    /\ txn.offer_date = Tomorrow /\ txn.value = 2
    /\ \E i \in RowsFor(txn.before, Tomorrow, "MAIN", txn.key) :
          /\ ~txn.before[i].is_active
          /\ txn.before[i].max_per_person = 1
          /\ offers[i].is_active
          /\ offers[i].max_per_person = 2
    /\ Len(offers) = Len(txn.before)
    /\ Len(offers) = 3

\* C20: every offer has max_per_person >= 1; add_offer_main, add_offer_side
\* and update_offer_max store the value they are given when it is >= 1 and
\* 1 when it is 0 or negative.
C20_CapAtLeastOne ==
    /\ \A i \in 1..Len(offers) : offers[i].max_per_person >= 1
    /\ LastCall({"add_offer_main", "add_offer_side"}) =>
          \A i \in RowsFor(offers, txn.offer_date, TypeOfCall, txn.key) :
              offers[i].max_per_person = (IF txn.value < 1 THEN 1 ELSE txn.value)
    /\ LastCall({"update_offer_max"}) =>
          \A i \in 1..Len(offers) :
              offers[i].id = txn.key =>
                  offers[i].max_per_person = (IF txn.value < 1 THEN 1 ELSE txn.value)

\* update_offer_max with -1 on an offer whose cap was 2: the cap is 1
C20_Witness ==
    /\ LastCall({"update_offer_max"})
    /\ txn.value = 0 - 1
    /\ \E i \in 1..Len(offers) :
          /\ offers[i].id = txn.key
          /\ txn.before[i].max_per_person = 2
          /\ offers[i].max_per_person = 1

-----------------------------------------------------------------------------
(* The events table under every operation: the writes of db.py on events,  *)
(* called one after the other and kept in last with their arguments, among *)
(* page views, reservations, menu, roster and offer operations of a        *)
(* logged-in admin.                                                        *)

\* history of one call and its arguments (0, <<>> or FALSE for an argument
\* the call does not have); turn tells a call from the same call before it
EventCalled(op, event_id, event_date, is_planned, menu) ==
    [op |-> op, event_id |-> event_id, event_date |-> event_date,
     is_planned |-> is_planned, menu |-> menu,
     turn |-> IF last = None THEN 0
              ELSE IF "turn" \in DOMAIN last THEN 1 - last.turn ELSE 0]

NotEvents == <<agents, shifts, offers, reservations, reservation_lines,
               flash, probe, inflight, txn, weekly_menus, admin>>

call_toggle_event_open(event_id) ==
    /\ events' = toggle_event_open(events, event_id)
    /\ last' = EventCalled("toggle_event_open", event_id, <<>>, FALSE, <<>>)
    /\ UNCHANGED NotEvents

call_toggle_event_planned(event_id) ==
    /\ events' = toggle_event_planned(events, event_id)
    /\ last' = EventCalled("toggle_event_planned", event_id, <<>>, FALSE, <<>>)
    /\ UNCHANGED NotEvents

call_set_event_planned(event_id, is_planned) ==
    /\ events' = set_event_planned(events, event_id, is_planned)
    /\ last' = EventCalled("set_event_planned", event_id, <<>>, is_planned, <<>>)
    /\ UNCHANGED NotEvents

call_upsert_event_menu_preserve_open(event_date, menu) ==
    /\ events' = upsert_event_menu_preserve_open(event_date, menu)
    /\ last' = EventCalled("upsert_event_menu_preserve_open", 0, event_date,
                           FALSE, menu)
    /\ UNCHANGED NotEvents

WeekForm(text) == [day \in DayKeys |-> IF day = "mardi" THEN text ELSE <<>>]

\* the week-menu forms an admin saves: (week_start, text of Tuesday's field)
WeekSaves ==
    {<<monday_of_week(Tomorrow), <<" ", ",">> >>,
     <<monday_of_week(Tomorrow), <<"c", ",", " ", "f">> >>}

\* the menu a caller hands to the upsert
GivenMenu == << <<"c">> >>

EventIds == 1..2

NextEvents ==
    \/ admin_login_post(ADMIN_USERNAME, ADMIN_PASSWORD)
    \/ \E link \in {SentLink(1)} : home(link)
    \/ \E form \in {MkForm(SentLink(1), <<"j">>, <<>>, <<>>, <<>>)} :
          post_reserve("public", form) /\ Len(reservations') <= MaxReservations
    \/ \E ws \in WeekSaves : admin_week_menu_save(ws[1], WeekForm(ws[2]))
    \/ admin_sync_tomorrow
    \/ admin_shifts_save(Tomorrow, <<1>>)
    \/ admin_offers_add_main(1, 1)
    \/ \E i \in EventIds : call_toggle_event_open(i)
    \/ \E i \in EventIds : call_toggle_event_planned(i)
    \/ \E i \in {1}, b \in BOOLEAN : call_set_event_planned(i, b)
    \/ \E d \in Dates : call_upsert_event_menu_preserve_open(d, GivenMenu)

SpecEvents == Init /\ [][NextEvents]_vars

\* the step is a call of this write of db.py, kept in last
IsCall(op) ==
    /\ last' # last
    /\ "op" \in DOMAIN last'
    /\ last'.op = op

FlagOps == {"toggle_event_open", "toggle_event_planned", "set_event_planned"}

IsFlagCallOn(event_id) ==
    /\ \E op \in FlagOps : IsCall(op)
    /\ last'.event_id = event_id

\* C21: every step keeps each event's id and date; toggle_event_open
\* negates is_open of its event and leaves is_planned and the menu,
\* toggle_event_planned negates is_planned and leaves is_open and the menu,
\* set_event_planned sets is_planned to its argument and leaves is_open and
\* the menu; every other step (page view, reservation, auto-provisioning,
\* menu sync, week menu, roster, offer) leaves both flags of every event.
C21_OnlyFlagOperationsChangeFlags ==
    [][\A e \in events :
          \E e2 \in events' :
              /\ e2.id = e.id
              /\ e2.event_date = e.event_date
              /\ IF IsFlagCallOn(e.id)
                 THEN /\ e2.menu = e.menu
                      /\ last'.op = "toggle_event_open" =>
                             /\ e2.is_open = ~e.is_open
                             /\ e2.is_planned = e.is_planned
                      /\ last'.op = "toggle_event_planned" =>
                             /\ e2.is_planned = ~e.is_planned
                             /\ e2.is_open = e.is_open
                      /\ last'.op = "set_event_planned" =>
                             /\ e2.is_planned = last'.is_planned
                             /\ e2.is_open = e.is_open
                 ELSE /\ e2.is_open = e.is_open
                      /\ e2.is_planned = e.is_planned]_vars

\* toggle_event_planned has just made a closed event with a reservation
\* unplanned, next to a second event
C21_Witness ==
    /\ "op" \in DOMAIN last
    /\ last.op = "toggle_event_planned"
    /\ \E e \in events : e.id = last.event_id /\ ~e.is_planned /\ ~e.is_open
    /\ Cardinality(events) = 2
    /\ Len(reservations) = 1

\* C22: upsert_event_menu_preserve_open(date, menu) on a date that has an
\* event changes the menu of that row to the given list and nothing else in
\* the table, so is_open and is_planned stay; on a date without an event it
\* adds one row, with the given menu, open and planned.
C22_UpsertKeepsFlags ==
    [][IsCall("upsert_event_menu_preserve_open") =>
          IF \E e \in events : e.event_date = last'.event_date
          THEN events' = {IF e.event_date = last'.event_date
                          THEN [e EXCEPT !.menu = last'.menu] ELSE e :
                             e \in events}
          ELSE \E n \in events' :
                  /\ events' = events \cup {n}
                  /\ n.id \notin {e.id : e \in events}
                  /\ n.event_date = last'.event_date
                  /\ n.menu = last'.menu
                  /\ n.is_open /\ n.is_planned]_vars

\* the upsert has just given its menu to an event that is closed and unplanned
C22_Witness ==
    /\ "op" \in DOMAIN last
    /\ last.op = "upsert_event_menu_preserve_open"
    /\ \E e \in events :
          /\ e.event_date = last.event_date
          /\ e.menu = last.menu
          /\ ~e.is_open /\ ~e.is_planned

\* the menu the week's row gives for tomorrow, a Tuesday
WeekdayMenu ==
    IF \A w \in weekly_menus : w.week_start # monday_of_week(Tomorrow)
    THEN DEFAULT_MENU
    ELSE LET w == CHOOSE x \in weekly_menus : x.week_start = monday_of_week(Tomorrow)
         IN  IF "mardi" \notin DOMAIN w.menu THEN DEFAULT_MENU
             ELSE IF w.menu["mardi"] = <<>> THEN DEFAULT_MENU
             ELSE w.menu["mardi"]

\* C24: a request that finds no event for tomorrow (a page view, a
\* submission, a menu sync) adds exactly one row for it: open, planned,
\* with Tuesday's list of the week's menu, or the default menu when the
\* week has no row or Tuesday's list is missing or empty.
C24_FirstAccessCreatesEvent ==
    [][(/\ get_event(Tomorrow) = None
        /\ \E e \in events' : e.event_date = Tomorrow
        /\ ~IsCall("upsert_event_menu_preserve_open")) =>
          \E n \in events' :
              /\ events' = events \cup {n}
              /\ n.event_date = Tomorrow
              /\ n.is_open /\ n.is_planned
              /\ n.menu = WeekdayMenu]_vars

\* a page view has created tomorrow's event with the two items the admin
\* saved for Tuesday
C24_Witness ==
    /\ "route" \in DOMAIN last
    /\ last.route = "/"
    /\ events = {[id |-> 1, event_date |-> Tomorrow,
                  menu |-> << <<"c">>, <<"f">> >>,
                  is_open |-> TRUE, is_planned |-> TRUE]}
    /\ \E w \in weekly_menus : w.menu["mardi"] = << <<"c">>, <<"f">> >>
    /\ flash = None
    /\ reservations = <<>>

-----------------------------------------------------------------------------
(* Requests that reach tomorrow's date at the same time, each on its own   *)
(* connection: the SELECT of ensure_event_for_date or of the upsert, then  *)
(* the INSERT or UPDATE and the rest of the handler.  Nothing holds a lock *)
(* between the two statements.                                             *)

\* sqlite3.IntegrityError: UNIQUE constraint failed: events.event_date
IntegrityError == "IntegrityError"

unique_event_date_dropped(table, event_date) == TRUE

\* event_date TEXT NOT NULL UNIQUE: whether the table takes a row of this date
unique_event_date(table, event_date) ==
    \A e \in table : e.event_date # event_date

\* the INSERT raises when the SELECT found no row and the table has one now
InsertRaises(req) ==
    ~req.found /\ ~unique_event_date(events, Tomorrow)

\* INSERT INTO events (event_date, menu_json, is_open, is_planned)
insert_event(event_date, menu) == events \cup {EventRow(event_date, menu)}

\* the first statement of the three handlers: SELECT id FROM events
select_event(c, route, form) ==
    /\ inflight[c] = None
    /\ inflight' = [inflight EXCEPT ![c] =
                        [route |-> route, form |-> form,
                         found |-> get_event(Tomorrow) # None,
                         menu |-> menu_for_date(Tomorrow)]]
    /\ UNCHANGED <<events, agents, shifts, offers, reservations,
                   reservation_lines, flash, last, probe, txn, weekly_menus,
                   admin>>

\* the exception leaves the handler: a 500 response, no flash, no redirect
Escaped(c, req, error) ==
    /\ last' = [h |-> "public", route |-> req.route, form |-> req.form,
                reason |-> error, level |-> "none", redirect |-> [status |-> 500]]
    /\ inflight' = [inflight EXCEPT ![c] = None]
    /\ UNCHANGED <<events, agents, shifts, offers, reservations,
                   reservation_lines, flash, probe, txn, weekly_menus, admin>>

Running(c, route) ==
    IF inflight[c] = None THEN FALSE ELSE inflight[c].route = route

reserve_select(c, form) == select_event(c, "/reserve", form)

\* POST /reserve from the INSERT of ensure_event_for_date on
reserve_rest(c) ==
    /\ Running(c, "/reserve")
    /\ \E req \in {inflight[c]} :
          IF InsertRaises(req) THEN Escaped(c, req, IntegrityError)
          ELSE \E table \in {IF req.found THEN events
                              ELSE insert_event(Tomorrow, req.menu)} :
                 \E event \in {CHOOSE e \in table : e.event_date = Tomorrow} :
                    \E out \in {ValidatePublic(req.form, event)} :
                       /\ events' = table
                       /\ Persist(req.form, event.id, out)
                       /\ last' = Observed("public", req.form, event, out)
                       /\ inflight' = [inflight EXCEPT ![c] = None]
                       /\ UNCHANGED <<agents, shifts, offers, probe, txn,
                                      weekly_menus, admin>>

home_select(c, link) == select_event(c, "/", LinkForm(link))

\* GET / from the INSERT of ensure_event_for_date on
home_rest(c) ==
    /\ Running(c, "/")
    /\ \E req \in {inflight[c]} :
          IF InsertRaises(req) THEN Escaped(c, req, IntegrityError)
          ELSE \E table \in {IF req.found THEN events
                              ELSE insert_event(Tomorrow, req.menu)} :
                 \E event \in {CHOOSE e \in table : e.event_date = Tomorrow} :
                    \E popped \in {pop_flash(flash)} :
                       /\ events' = table
                       /\ flash' = popped.session
                       /\ last' = Rendered(Link(req.form.agent, req.form.d,
                                                req.form.k),
                                           event, popped.flash_data)
                       /\ inflight' = [inflight EXCEPT ![c] = None]
                       /\ UNCHANGED <<agents, shifts, offers, reservations,
                                      reservation_lines, probe, txn,
                                      weekly_menus, admin>>

sync_select(c) ==
    IF require_admin # None THEN Refused
    ELSE select_event(c, "/admin/sync-tomorrow", LinkForm(Link(<<>>, <<>>, <<>>)))

\* POST /admin/sync-tomorrow from the UPDATE or INSERT of the upsert on
sync_rest(c) ==
    /\ Running(c, "/admin/sync-tomorrow")
    /\ \E req \in {inflight[c]} :
          IF InsertRaises(req) THEN Escaped(c, req, IntegrityError)
          ELSE /\ events' = IF req.found
                            THEN {IF e.event_date = Tomorrow
                                  THEN [e EXCEPT !.menu = req.menu] ELSE e :
                                     e \in events}
                            ELSE insert_event(Tomorrow, req.menu)
               /\ flash' = [message |-> "menu_synced", level |-> "success"]
               /\ last' = [route |-> req.route, status |-> 303, path |-> "/admin"]
               /\ inflight' = [inflight EXCEPT ![c] = None]
               /\ UNCHANGED <<agents, shifts, offers, reservations,
                              reservation_lines, probe, txn, weekly_menus,
                              admin>>

\* a logged-in admin has saved the roster and one offer; no request has
\* reached tomorrow's date yet
InitProvision ==
    /\ agents = Registry(<<"S">>)
    /\ events = {}
    /\ shifts = RosterRows(AgentIds)
    /\ offers = <<OfferRow(1, "MAIN", 1, TRUE)>>
    /\ reservations = <<>>
    /\ reservation_lines = <<>>
    /\ flash = None
    /\ last = None
    /\ probe = None
    /\ inflight = NoRequest
    /\ txn = None
    /\ weekly_menus \in {{}, {[week_start |-> monday_of_week(Tomorrow),
                               menu |-> [day \in DayKeys |-> << <<"c">> >>]]}}
    /\ admin = TRUE

ProvisionForms ==
    {MkForm(SentLink(a), <<"j">>, <<>>, <<>>, <<>>) : a \in AgentIds}
    \cup {MkForm(Link(Txt(1), Tomorrow, <<"Eacute">>), <<>>, <<>>, <<>>, <<>>)}

NextProvision ==
    \/ \E c \in Clients, form \in ProvisionForms : reserve_select(c, form)
    \/ \E c \in Clients : reserve_rest(c) /\ Len(reservations') <= MaxReservations + 1
    \/ \E c \in Clients, link \in {SentLink(1)} : home_select(c, link)
    \/ \E c \in Clients : home_rest(c)
    \/ \E c \in Clients : sync_select(c)
    \/ \E c \in Clients : sync_rest(c)

SpecProvision == InitProvision /\ [][NextProvision]_vars

\* C23: whatever the interleaving of the requests that look tomorrow's
\* event up and then insert or update it, no two rows of events have the
\* same date, and every row stays in the table with its id and date.
C23_OneEventPerDate ==
    /\ [](\A e1 \in events, e2 \in events :
             e1.event_date = e2.event_date => e1 = e2)
    /\ [][\A e \in events :
             \E e2 \in events' : e2.id = e.id /\ e2.event_date = e.event_date]_vars

\* two requests found no event; the second INSERT was refused by the table
C23_Witness ==
    /\ "reason" \in DOMAIN last
    /\ last.reason = IntegrityError
    /\ Cardinality(events) = 1

\* the last request that ended is a POST /reserve
ReserveEnded ==
    /\ "h" \in DOMAIN last
    /\ "route" \in DOMAIN last => last.route = "/reserve"

\* C28, as stated: a POST /reserve that has ended has recorded its one flash
\* reason and answered with a redirect.
C28_ReserveEndsWithFlashAndRedirect ==
    ReserveEnded =>
        /\ flash = [message |-> last.reason, level |-> last.level]
        /\ "path" \in DOMAIN last.redirect

-----------------------------------------------------------------------------
(* The admin routes on their own, requested with and without the admin     *)
(* flag: log in with good and bad credentials, log out, and every guarded  *)
(* route of the model.                                                     *)

Usernames == {ADMIN_USERNAME, <<"a", " ">>, <<"x">>}

Passwords == {ADMIN_PASSWORD, <<"p", " ">>}

NextAdmin ==
    \/ \E u \in Usernames, pw \in Passwords : admin_login_post(u, pw)
    \/ admin_logout
    \/ admin_dashboard
    \/ admin_toggle
    \/ admin_toggle_planned
    \/ admin_shifts_save(Tomorrow, <<1>>)
    \/ admin_offers_add_main(1, 1)
    \/ admin_offers_add_side(1, 1)
    \/ \E i \in 1..Len(offers) : admin_offers_update_max(i, MaxCap)
    \/ \E i \in 1..Len(offers), b \in BOOLEAN : admin_offers_toggle(i, b)
    \/ admin_sync_tomorrow
    \/ \E ws \in WeekSaves : admin_week_menu_save(ws[1], WeekForm(ws[2]))

SpecAdmin == Init /\ [][NextAdmin]_vars

\* the tables an admin route may write
Store == <<events, agents, shifts, weekly_menus, offers>>

AnsweredBy(route) == "route" \in DOMAIN last' /\ last'.route = route

\* C25: a request of a guarded admin route that comes without the admin
\* flag is answered by the redirect to /admin/login and leaves events,
\* agents, shifts, weekly_menus and offers as they are; the flag goes from
\* unset to set only in a POST /admin/login whose stripped username and
\* password are the configured ones, and from set to unset only in, and in
\* every, POST /admin/logout.
C25_AdminGuard ==
    [][/\ ~admin =>
            /\ Store' = Store
            /\ \/ last' = [status |-> 303, path |-> "/admin/login"]
               \/ AnsweredBy("/admin/login")
               \/ AnsweredBy("/admin/logout")
       /\ (~admin /\ admin') =>
            /\ AnsweredBy("/admin/login")
            /\ py_strip(last'.username) = ADMIN_USERNAME
            /\ last'.password = ADMIN_PASSWORD
            /\ last'.status = 303
       /\ (admin /\ ~admin') => AnsweredBy("/admin/logout")
       /\ (AnsweredBy("/admin/logout") /\ last' # last) => ~admin']_vars

\* the admin has worked and logged out; a request was then sent to
\* /admin/login by the guard
C25_Witness ==
    /\ ~admin
    /\ last = [status |-> 303, path |-> "/admin/login"]
    /\ events # {}
    /\ offers # <<>>
    /\ shifts # {}

-----------------------------------------------------------------------------
(* The flash slot of one session: submissions and the menu sync record a   *)
(* message, the public page and the dashboard show it, logout clears the   *)
(* session.  The roster and one offer are saved; every request is kept in  *)
(* last.                                                                   *)

FlashForms ==
    {MkForm(Link(<<>>, <<>>, <<>>), <<>>, <<>>, <<>>, <<>>)}
    \cup {MkForm(SentLink(a), b, <<>>, <<>>, <<>>) :
             a \in AgentIds, b \in {<<>>, <<"j">>}}

NextFlash ==
    \/ \E form \in FlashForms :
          observed_post_reserve("public", form)
              /\ Len(reservations') <= MaxReservations + 1
    \/ \E link \in {Link(<<>>, <<>>, <<>>), SentLink(1)} : home(link)
    \/ admin_login_post(ADMIN_USERNAME, ADMIN_PASSWORD)
    \/ admin_logout
    \/ admin_dashboard
    \/ admin_sync_tomorrow

SpecFlash == InitProvision /\ [][NextFlash]_vars

\* the step is a page render: its history says what flash the page shows
RenderStep == "flash" \in DOMAIN last'

-----------------------------------------------------------------------------
(* The redirect of one submission (SpecSubmit) *)

\* the submission carried the three fields of the signed link
CarriedLink ==
    /\ py_strip(last.form.agent) # <<>>
    /\ py_strip(last.form.d) # <<>>
    /\ py_strip(last.form.k) # <<>>

\* C27, as stated: the redirect that answers a submission with agent, d and
\* k goes to /?agent=..&d=..&k=.. with the values of the submission,
\* whether it was accepted or rejected.
C27_RedirectEchoesLink ==
    (Submitted /\ CarriedLink /\ last.reason # TypeError) =>
        /\ "agent" \in DOMAIN last.redirect
        /\ <<last.redirect.agent>> = py_int(py_strip(last.form.agent))
        /\ last.redirect.d = py_strip(last.form.d)
        /\ last.redirect.k = py_strip(last.form.k)

-----------------------------------------------------------------------------
(* The public page on its own: the tables are as a day of operation can    *)
(* have left them (InitSubmit) and one GET / arrives with a link; last     *)
(* keeps what the page shows and what POST /reserve of routers/public.py   *)
(* answers to the same link in the same state.                             *)

NextGate ==
    \E link \in GoodLinks \cup BadLinks : last = None /\ home(link)

SpecGate == InitSubmit /\ [][NextGate]_vars

\* the reasons of the checks of POST /reserve that the page gates on
GateReasons ==
    {"not_planned", "closed", "secure", "invalid_link", "expired_or_invalid",
     "unauthorized", "agent_not_found", "already", "no_offers"}

\* C29, as stated: the page shows the form exactly when the submission of
\* the same link passes the not_planned, closed, link, roster, already and
\* no_offers checks, and shows the reason of the failing check otherwise
\* (the link reasons taken as one; a token on which the submission raises
\* is left aside).
C29_GatingAgrees ==
    (last # None /\ last.post_reason # TypeError) =>
        /\ last.can_reserve <=> last.post_reason \notin GateReasons
        /\ ~last.can_reserve =>
               ReasonClass(last.reserve_reason) = ReasonClass(last.post_reason)

-----------------------------------------------------------------------------
(* Offers and the lines that name them, over a day of admin operations and *)
(* reservations (Spec)                                                     *)

-----------------------------------------------------------------------------
(* set_reservation_lines on its own: calls with any reservation id and any *)
(* list of (offer_id, qty), a repeated offer and the empty list included;  *)
(* txn keeps the last call and the table it found.                         *)

LineCalled(reservation_id, lines) ==
    [op |-> "set_reservation_lines", reservation_id |-> reservation_id,
     lines |-> lines, before |-> reservation_lines, phase |-> "committed"]

call_set_reservation_lines(reservation_id, lines) ==
    /\ reservation_lines' = set_reservation_lines(reservation_id, lines)
    /\ txn' = LineCalled(reservation_id, lines)
    /\ UNCHANGED <<Others, shifts, reservations, inflight>>

Pair(offer_id, qty) == [offer_id |-> offer_id, qty |-> qty]

\* the lists of the calls
LineLists ==
    {<<>>, <<Pair(1, 1)>>, <<Pair(2, 2)>>, <<Pair(1, 1), Pair(2, 1)>>,
     <<Pair(2, 1), Pair(2, 1)>>}

ReservationIds == 1..2

NextLines ==
    \E r \in ReservationIds, lines \in LineLists :
        call_set_reservation_lines(r, lines)

SpecLines == Init /\ [][NextLines]_vars

-----------------------------------------------------------------------------
(* Forged side fields: on an open day with a MAIN (id 1) and a SIDE (id 2), *)
(* submissions arrive one after the other whose fields offer_<key> name    *)
(* the side once, twice under the same key, or under two keys that int()   *)
(* reads as the same id.                                                   *)

InitForged ==
    /\ agents = Registry(<<"S">>)
    /\ events = OpenDay
    /\ shifts = RosterRows(AgentIds)
    /\ offers \in {<<OfferRow(1, "MAIN", 1, TRUE), OfferRow(2, "SIDE", c, TRUE)>> :
                      c \in Caps}
    /\ reservations = <<>>
    /\ reservation_lines = <<>>
    /\ flash = None
    /\ last = None
    /\ probe = None
    /\ inflight = NoRequest
    /\ txn = None
    /\ weekly_menus = {}
    /\ admin = FALSE

\* offer_2 alone; offer_2 twice; offer_2 and offer_02; offer_2 and "offer_ 2"
ForgedSides ==
    {<<Field(Txt(2), Txt(5))>>,
     <<Field(Txt(2), Txt(1)), Field(Txt(2), Txt(5))>>,
     <<Field(Txt(2), Txt(1)), Field(<<"0", "2">>, Txt(1))>>,
     <<Field(Txt(2), Txt(5)), Field(<<"0", "2">>, Txt(5))>>,
     <<Field(Txt(2), Txt(5)), Field(<<" ", "2">>, Txt(1))>>}

ForgedForms ==
    {MkForm(SentLink(a), <<>>, m, <<>>, sd) :
        a \in AgentIds, m \in {<<>>, Txt(1)}, sd \in ForgedSides}

NextForged ==
    \E h \in Handlers, form \in ForgedForms :
        /\ observed_post_reserve(h, form)
        /\ Len(reservations') <= MaxReservations + 1

SpecForged == InitForged /\ [][NextForged]_vars

\* the lines of reservation rid that name the offer
LinesOn(rid, offer_id) ==
    {j \in 1..Len(reservation_lines) :
        /\ reservation_lines[j].reservation_id = rid
        /\ reservation_lines[j].offer_id = offer_id}

RECURSIVE QtySum(_)
QtySum(js) ==
    IF js = {} THEN 0
    ELSE LET j == CHOOSE x \in js : TRUE
         IN  reservation_lines[j].qty + QtySum(js \ {j})

\* C32: every reservation has at most one line per offer, and the
\* quantities of its lines on an offer add up to at most the offer's
\* max_per_person, whatever fields offer_<key> the submission carried.
C32_OneLinePerOffer ==
    \A r \in 1..Len(reservations), i \in 1..Len(offers) :
        /\ Cardinality(LinesOn(reservations[r].id, offers[i].id)) <= 1
        /\ QtySum(LinesOn(reservations[r].id, offers[i].id))
              <= offers[i].max_per_person

\* the same key twice is one pair of form.items(): one line, with the value
\* of the last occurrence, clamped
SameKeyOnce ==
    (Accepted /\ Len(last.form.sides) = 2
        /\ last.form.sides[1].key = last.form.sides[2].key)
        => Cardinality(LinesOn(Len(reservations), 2)) = 1

-----------------------------------------------------------------------------
(* Whose reservation blocks a submission *)

\* a reservation made with the link of the submission's agent was there when
\* the submission arrived
OwnReservation ==
    \E i \in 1..last.rows :
        /\ reservations[i].event_id = get_event(Tomorrow).id
        /\ py_int(reservations[i].by.agent) = SubmittedAgent

\* C33: a submission of a rostered agent with a valid link is rejected with
\* the reason already only when that agent has a reservation for the event;
\* the reservation of another agent does not block it.
C33_OnlyOwnReservationBlocks ==
    (Submitted /\ last.reason = "already") => OwnReservation

-----------------------------------------------------------------------------
(* The agent registry (db.py, main.py /admin/agents/...).  A row of agents *)
(* is [id, name, is_active]; phone and whatsapp_optin are columns no check *)
(* of a submission reads, so only the phone's emptiness is kept: it        *)
(* decides whether update_agent raises.                                    *)

\* UPDATE agents SET is_active = ? WHERE id = ?
set_agent_active(agent_id, is_active) ==
    {IF a.id = agent_id THEN [a EXCEPT !.is_active = is_active] ELSE a :
        a \in agents}

\* update_agent: ValueError, and no write, when the stripped name or the
\* stripped phone is empty; otherwise UPDATE agents SET name = ?, ...,
\* is_active = ? WHERE id = ?
update_agent(agent_id, name, phone, is_active) ==
    IF py_strip(name) = <<>> \/ py_strip(phone) = <<>> THEN agents
    ELSE {IF a.id = agent_id
          THEN [a EXCEPT !.name = py_strip(name), !.is_active = is_active]
          ELSE a : a \in agents}

NotAgents == <<events, shifts, offers, reservations, reservation_lines,
               flash, last, probe, inflight, txn, weekly_menus, admin>>

\* POST /admin/agents/update
admin_agents_update(agent_id, name, phone, is_active) ==
    IF require_admin # None THEN Refused
    ELSE /\ agents' = update_agent(agent_id, name, phone, is_active)
         /\ UNCHANGED NotAgents

\* POST /admin/agents/delete: "soft delete"
admin_agents_delete(agent_id) ==
    IF require_admin # None THEN Refused
    ELSE /\ agents' = set_agent_active(agent_id, FALSE)
         /\ UNCHANGED NotAgents

\* POST /admin/agents/toggle-active; is_active is the int of the form
admin_agents_toggle_active(agent_id, is_active) ==
    IF require_admin # None THEN Refused
    ELSE /\ agents' = set_agent_active(agent_id, is_active # 0)
         /\ UNCHANGED NotAgents

\* the names and phones the update form posts
AgentNames == {<<"S">>, <<"T">>, <<" ">>}

Phones == {<<"6">>, <<>>}

\* a day with both agents on the roster and one MAIN offer: the admin logs
\* in and edits the registry while submissions arrive one after the other
NextAgents ==
    \/ admin_login_post(ADMIN_USERNAME, ADMIN_PASSWORD)
    \/ \E h \in Handlers, form \in FlowForms :
          /\ observed_post_reserve(h, form)
          /\ Len(reservations') <= MaxReservations + 1
    \/ \E a \in AgentIds, name \in AgentNames, phone \in Phones, b \in BOOLEAN :
          admin_agents_update(a, name, phone, b)
    \/ \E a \in AgentIds : admin_agents_delete(a)
    \/ \E a \in AgentIds, b \in 0..1 : admin_agents_toggle_active(a, b)

InitAgents ==
    /\ agents = Registry(<<"S">>)
    /\ events = OpenDay
    /\ shifts = RosterRows(AgentIds)
    /\ offers = <<OfferRow(1, "MAIN", 1, TRUE)>>
    /\ reservations = <<>>
    /\ reservation_lines = <<>>
    /\ flash = None
    /\ last = None
    /\ probe = None
    /\ inflight = NoRequest
    /\ txn = None
    /\ weekly_menus = {}
    /\ admin = FALSE

SpecAgents == InitAgents /\ [][NextAgents]_vars

\* C34: no two reservations of one event were made with the link of the
\* same agent id, whatever the admin did to the registry in between.
C34_OneReservationPerAgent ==
    \A i \in 1..Len(reservations), j \in 1..Len(reservations) :
        (i < j /\ reservations[i].event_id = reservations[j].event_id)
            => py_int(reservations[i].by.agent) # py_int(reservations[j].by.agent)

-----------------------------------------------------------------------------
(* The duplicate check on its own: create_reservation stores a name, then  *)
(* reservation_exists_for_event is asked for the same name.                *)

MaxNameLen == 2

NameChars == {"S", "s", "Eacute", "eacute", " ", "TAB", "NBSP"}

\* the names of at most MaxNameLen characters
NameTexts == UNION {[1..n -> NameChars] : n \in 1..MaxNameLen}

\* create_reservation(event_id, name, "")
name_store(name) ==
    /\ probe = None
    /\ reservations = <<>>
    /\ reservations' = create_reservation(1, name, <<>>,
                           [agent |-> <<>>, d |-> <<>>, k |-> <<>>])
    /\ probe' = [name |-> name, phase |-> "stored", found |-> FALSE]
    /\ UNCHANGED <<events, agents, shifts, offers, reservation_lines, flash,
                   last, inflight, txn, weekly_menus, admin>>

\* reservation_exists_for_event(event_id, name)
name_check ==
    /\ probe # None /\ probe.phase = "stored"
    /\ probe' = [name |-> probe.name, phase |-> "checked",
                 found |-> reservation_exists_for_event(1, probe.name)]
    /\ UNCHANGED <<events, agents, shifts, offers, reservations,
                   reservation_lines, flash, last, inflight, txn,
                   weekly_menus, admin>>

NextNames ==
    \/ \E name \in NameTexts : name_store(name)
    \/ name_check

SpecNames == Init /\ [][NextNames]_vars

\* C35: for every name, the reservation create_reservation stored under it
\* is found by reservation_exists_for_event with the same name, and the two
\* normalizations, strip + lower of Python and trim + lower of SQLite, give
\* the same text for the stored name.
C35_StoredNameFound ==
    (probe # None /\ probe.phase = "checked") =>
        /\ probe.found
        /\ sql_lower(sql_trim(reservations[1].name)) = py_lower(py_strip(probe.name))

\* white space other than the space is no cause of a mismatch: the stored
\* name went through Python's strip, which leaves SQLite's trim nothing
NamesWithoutUpperNonAsciiFound ==
    (probe # None /\ probe.phase = "checked"
        /\ \A i \in 1..Len(probe.name) : probe.name[i] # "Eacute")
        => probe.found

-----------------------------------------------------------------------------
(* Submissions while the admin opens, closes, plans and unplans the day.   *)
(* POST /reserve is a coroutine on the event loop, the admin routes are    *)
(* plain functions run in the thread pool, and every call of db.py opens   *)
(* its own connection: a toggle can commit between the reads of a          *)
(* submission and its writes.  One submission is under way at a time.      *)

\* "Persist" of a request that has done its reads; last keeps, as history,
\* the event as it is in the table when the row is written
reserve_write(c) ==
    \E req \in {inflight[c]} :
        /\ req # None
        /\ Persist(req.form, req.event_id, req.out)
        /\ inflight' = [inflight EXCEPT ![c] = None]
        /\ last' = [route |-> "/reserve", wrote |-> req.out.persist,
                    is_open |-> get_event(Tomorrow).is_open,
                    is_planned |-> get_event(Tomorrow).is_planned,
                    rows |-> Len(reservations)]
        /\ UNCHANGED <<events, agents, shifts, offers, probe, txn,
                       weekly_menus, admin>>

NextToggle ==
    \/ admin_login_post(ADMIN_USERNAME, ADMIN_PASSWORD)
    \/ admin_toggle
    \/ admin_toggle_planned
    \/ \E h \in Handlers, form \in FlowForms : reserve_begin(1, h, form)
    \/ reserve_write(1) /\ Len(reservations') <= MaxReservations + 1

SpecToggle == InitAgents /\ [][NextToggle]_vars

\* C36: when create_reservation writes a row, the event of the row is
\* planned and open in the table.
C36_OpenWhenWritten ==
    ("wrote" \in DOMAIN last /\ last.wrote) => (last.is_open /\ last.is_planned)

-----------------------------------------------------------------------------
(* What a reader finds of a reservation whose submission is under way *)

\* C37: in every state the committed tables, which is what
\* list_reservations_with_lines and reservation_exists_for_event read, hold
\* for each reservation of a submission under way the validated lines of
\* that submission, and no reservation has zero lines and an empty bring
\* note.
C37_VisibleTogether ==
    /\ \A c \in Clients :
          (inflight[c] # None /\ "reservation_id" \in DOMAIN inflight[c])
              => LinesOfReservation(reservation_lines, inflight[c].reservation_id)
                    = PairsOf(inflight[c].out.lines)
    /\ \A r \in 1..Len(reservations) :
          reservations[r].bring = <<>>
              => LinesOfReservation(reservation_lines, reservations[r].id) # <<>>

-----------------------------------------------------------------------------
(* What a rejected submission leaves behind *)

\* C38: a POST /reserve that is not answered with success leaves the
\* reservations, the reservation lines, the offers, the roster, the agents
\* and the weekly menus as they were, and the events too, unless the date
\* had no event: then the one row of ensure_event_for_date is added.
C38_RejectedChangesNothing ==
    [][(last' # last /\ last'.reason # "success") =>
          /\ reservations' = reservations
          /\ reservation_lines' = reservation_lines
          /\ offers' = offers
          /\ shifts' = shifts
          /\ agents' = agents
          /\ weekly_menus' = weekly_menus
          /\ IF get_event(Tomorrow) # None THEN events' = events
             ELSE events' = events \cup {EventRow(Tomorrow, menu_for_date(Tomorrow))}]_vars

\* a submission with a valid link of a rostered agent was rejected as a
\* duplicate on a day with an earlier reservation and two offers: all of
\* them are still there
C38_Witness ==
    /\ Submitted /\ last.reason = "already"
    /\ Len(reservations) = 1 /\ last.rows = 1
    /\ Len(offers) = 2
    /\ shifts # {}

-----------------------------------------------------------------------------
(* ensure_event_for_date on a date that has its event *)

\* a page view or a submission of the day
PageViewOrSubmission ==
    \/ home(SentLink(1))
    \/ post_reserve("public", MkForm(SentLink(1), <<"j">>, <<>>, <<>>, <<>>))

\* C39: ensure_event_for_date(d, menu) returns the events table as it is
\* when the date has an event, whatever the menu handed over, the menu the
\* week's template gives now included; a page view or a submission leaves
\* every row of events as it was: open, planned and menu.
C39_EnsureKeepsExisting ==
    /\ [](\A d \in Dates :
            \A m \in {DEFAULT_MENU, GivenMenu, menu_for_date(d)} :
                get_event(d) # None => ensure_event_for_date(d, m) = events)
    /\ [][PageViewOrSubmission => \A e \in events : e \in events']_vars

\* the page was rendered for an event that is closed and not planned and
\* holds the default menu, while the week's template now gives two items
C39_Witness ==
    /\ "route" \in DOMAIN last /\ last.route = "/"
    /\ last.reserve_reason = "not_planned"
    /\ \E e \in events :
          /\ e.event_date = Tomorrow
          /\ ~e.is_open /\ ~e.is_planned
          /\ e.menu = DEFAULT_MENU
    /\ menu_for_date(Tomorrow) = << <<"c">>, <<"f">> >>

-----------------------------------------------------------------------------
(* Submissions of an agent the admin has switched off *)

\* the step is a POST /reserve made with the link fields of agent a
SubmissionOf(a) ==
    /\ last' # last
    /\ "form" \in DOMAIN last'
    /\ py_int(py_strip(last'.form.agent)) = <<a>>

\* C40: a submission made with the link of an agent whose is_active is
\* false at that moment is not accepted and adds no reservation and no
\* line, whether or not the agent is on the roster of the date.
C40_InactiveRejected ==
    [][\A a \in agents :
          (SubmissionOf(a.id) /\ ~a.is_active) =>
              /\ last'.reason # "success"
              /\ reservations' = reservations
              /\ reservation_lines' = reservation_lines]_vars

=============================================================================
